---- MODULE Spec2Model ----
(***************************************************************************)
(* Contig partitioning and component assembly of popins                    *)
(* (src/merge/partition.h): partitionContigs, writeAlignedPairs,           *)
(* readAlignedPairs, unionFindToComponents, addSingletons and              *)
(* readAndMergeComponents, over SeqAn's UnionFind.                         *)
(***************************************************************************)
EXTENDS Integers, Sequences, FiniteSets, TLC

(***************************************************************************)
(* Bounds of the explored inputs.                                          *)
(***************************************************************************)
\* forward contigs of the small partitioning runs
SmallN == 3
\* SWIFT hits emitted in one small partitioning run
MaxHits == 2
\* forward contigs of the runs that start in readAndMergeComponents
MergeN == 2
\* lines over all pair files of such a run
MaxLines == 3
\* forward contigs, and hits, of the round-trip runs
RoundTripN == 4
RoundTripHits == 3
\* forward contigs of the runs that reach the size cut-off
BigN == 102
\* options.minScore
MinScore == 1
\* forward contigs, and pair-file lines, of the runs that shard the components
ShardN == 3
ShardLines == 2
\* totalBatches(batch) at most
MaxBatches == 3
\* forward contigs, bases of a contig, and options.minTipScore at most, of
\* the runs that graft contigs onto a graph
GraftN == 3
MaxSeqLen == 3
MaxTipScore == 1
\* contigs of a component of the runs with many branches, and contig files
MaxGrid == 7
MaxComb == 27
MaxContigFiles == 3
\* qgramLength of the first call of bestDiagonal at most, and the depth of
\* the recursion the stack holds
MaxQgram == 4
\* the reference ids of the records whose mapping quality is checked
MaxRef == 2
\* the names of the reads written to the fastq files
ReadNames == 3
\* contigs of a map that is filtered by entropy, the bases of a contig at
\* most, and the values of minEntropy in hundredths
EntropyN == 3
EntropyLen == 4
MinEntropies == {0, 23, 25, 26, 100}
\* contigs and lines of a pair file of any words
PairsN == 1
PairsLines == 3
MaxDepth == 6

\* partition.h:251, `uf._values[findSet(uf, a)] < -100`
CutOff == 100
\* popins_merge_seqs.h:496, `10 * length(options.contigFiles)`
SizeFactor == 10
\* popins_merge_seqs.h:360, `if (length(paths) > 30) return false;`
MaxPaths == 30
\* popins_merge_seqs.h:212, `maxValue<int>()`
Sentinel == 2147483647
\* popins_crop_unmapped.h:36, 46 and 49-52
MateDistance == 1000
MinMatches == 50
MaxClip == 24

VARIABLES
    contigsInTotal, \* batch.contigsInTotal (N)
    sample,         \* contig.id.pn of each forward id
    contigs,        \* keys of the contigs map (contigs that passed the filter)
    offset,         \* indexOffset(batch)
    width,          \* batchSize(batch)
    hits,           \* hits[a]: what the SWIFT finder emits for query a, in order
    uf,             \* partitionContigs' UnionFind (_values)
    alignedPairs,   \* partitionContigs' std::set<Pair>
    ufAll,          \* reference: the UnionFind of the same run without line 251's `break`
    a,              \* partitionContigs' loop variable
    h,              \* index of the finder's next hit for a
    pc,             \* position in the pipeline
    files,          \* componentFiles: the text of each pair file
    f,              \* readAndMergeComponents' file index
    stream,         \* unread text of the open pair file
    mUf,            \* readAndMergeComponents' UnionFind
    mPairs,         \* readAndMergeComponents' alignedPairs
    components,     \* the components map: key -> alignedPairs
    totalBatches,   \* totalBatches(batch)
    batchNumber,    \* batch.number
    contigSeqs,     \* constructSupercontigs' contigs: id -> sequence
    numContigFiles, \* length(options.contigFiles)
    minTipScore,    \* options.minTipScore, the minBranchLen of the grafts
    compIt,         \* constructSupercontigs' iterator: rank of the key at hand
    pos,            \* constructSupercontigs' pos
    component,      \* the component at hand: alignedPairs, ids, contigs
    compGraph,      \* mergeSequences' ComponentGraph
    seqIndex,       \* addSequencesToGraph's i
    outputStream,   \* the records written to options.outputStream
    numBranching,   \* constructSupercontigs' counters
    numVeryBranching,
    numTooLarge,
    numSingleton,
    call,           \* the arguments of the function called on its own
    ret             \* what it returned

vars == <<contigsInTotal, sample, contigs, offset, width, hits, uf, alignedPairs,
          ufAll, a, h, pc, files, f, stream, mUf, mPairs, components,
          totalBatches, batchNumber, contigSeqs, numContigFiles, minTipScore,
          compIt, pos, component, compGraph, seqIndex, outputStream,
          numBranching, numVeryBranching, numTooLarge, numSingleton, call, ret>>

(***************************************************************************)
(* SeqAn UnionFind<int>: _values[i] < 0 is a root holding -size, otherwise *)
(* the parent of i.                                                        *)
(***************************************************************************)
Ids(N) == 0 .. (2 * N - 1)

\* resize(uf, 2N): every id a set of its own
resizeUF(N) == [i \in Ids(N) |-> -1]

RECURSIVE findSet(_, _)
findSet(u, i) == IF u[i] < 0 THEN i ELSE findSet(u, u[i])

\* findSet's second loop: every id on the path from i gets r as its parent
RECURSIVE CompressPath(_, _, _)
CompressPath(u, i, r) ==
    IF u[i] < 0 THEN u ELSE CompressPath([u EXCEPT ![i] = r], u[i], r)

\* the path compression findSet(uf, i) leaves behind
compress(u, i) == IF u[i] < 0 THEN u ELSE CompressPath(u, i, findSet(u, i))

\* joinSets(uf, set1, set2) on two representatives: the smaller set goes under
\* the larger one, the first argument wins a tie
joinSets(u, set1, set2) ==
    IF set1 = set2 THEN u
    ELSE IF u[set1] > u[set2]
         THEN [u EXCEPT ![set1] = set2, ![set2] = u[set1] + u[set2]]
         ELSE [u EXCEPT ![set2] = set1, ![set1] = u[set1] + u[set2]]

\* joinSets(uf, findSet(uf, x), findSet(uf, y))
joinOf(u, x, y) ==
    LET c == compress(compress(u, x), y)
    IN  joinSets(c, findSet(c, x), findSet(c, y))

\* the size of the set of i: -_values[findSet(uf, i)]
SizeAt(u, i) == -u[findSet(u, i)]

\* globalIndexRC(i, batch)
globalIndexRC(i, N) == IF i < N THEN i + N ELSE i - N

(***************************************************************************)
(* partitionContigs                                                        *)
(***************************************************************************)
\* pairwiseAlignment: score is what localAlignment returns for the hit's band
pairwiseAlignmentMutGeq(score, minScore) == score >= minScore
pairwiseAlignment(score, minScore) == score > minScore

\* `contig.id.pn == contigs[b].id.pn`
SameIndividual(x, y) == sample[x] = sample[y]

\* `uf._values[findSet(uf, a)] < -100`
LargeComponentMutOne(u, x) == u[findSet(u, x)] < -1
LargeComponent(u, x) == u[findSet(u, x)] < -CutOff

\* the loop bound of `for (int a = 0; a < indexOffset(batch)+batchSize(batch); ++a)`
QueryLimitMutNext(off, wd) == off + wd + 1
QueryLimit(off, wd) == off + wd

\* what partitionContigs inserts for a verified hit
RecordedMutNone(P, x, y, N) == P
Recorded(P, x, y, N) == P \cup {<<x, y>>}

\* the joins of one verified hit
JoinedMutNoTwin(u, x, y, N) == joinOf(u, x, y)
Joined(u, x, y, N) ==
    joinOf(joinOf(u, x, y), globalIndexRC(x, N), globalIndexRC(y, N))

\* One pass of the finder loop's body for query x and hit hit, with the
\* cut-off applied (cut) or not: the new uf and pair set, and whether the loop
\* is left by `break`.
HitStep(u, P, N, x, hit, cut) ==
    LET y == hit.b IN
    IF SameIndividual(x, y)
    THEN [uf |-> u, pairs |-> P, brk |-> FALSE]
    ELSE LET u1 == compress(compress(u, x), y) IN
         IF findSet(u, x) = findSet(u, y)
         THEN [uf |-> u1, pairs |-> P, brk |-> FALSE]
         ELSE IF ~pairwiseAlignment(hit.score, MinScore)
              THEN [uf |-> u1, pairs |-> P, brk |-> FALSE]
              ELSE LET u2 == compress(Joined(u1, x, y, N), x)
                   IN  [uf |-> u2, pairs |-> Recorded(P, x, y, N),
                        brk |-> cut /\ LargeComponent(u2, x)]

\* the finder loop of query x from hit k on
RECURSIVE QueryRun(_, _, _, _, _, _, _)
QueryRun(u, P, N, x, hs, k, cut) ==
    IF k > Len(hs) THEN [uf |-> u, pairs |-> P]
    ELSE LET r == HitStep(u, P, N, x, hs[k], cut) IN
         IF r.brk THEN [uf |-> r.uf, pairs |-> r.pairs]
         ELSE QueryRun(r.uf, r.pairs, N, x, hs, k + 1, cut)

\* the loop over the queries from x on, the finder emitting hh[x] for x
RECURSIVE PartitionRun(_, _, _, _, _, _)
PartitionRun(u, P, N, x, hh, cut) ==
    IF x >= QueryLimit(offset, width) THEN [uf |-> u, pairs |-> P]
    ELSE IF x \notin contigs THEN PartitionRun(u, P, N, x + 1, hh, cut)
    ELSE LET r == QueryRun(u, P, N, x, hh[x], 1, cut)
         IN  PartitionRun(r.uf, r.pairs, N, x + 1, hh, cut)

(***************************************************************************)
(* The pair file: writeAlignedPairs' text and the reader's `stream >> key   *)
(* >> val`.  A text is a sequence of characters.                           *)
(***************************************************************************)
DigitChars == <<"0", "1", "2", "3", "4", "5", "6", "7", "8", "9">>
IsDigit(c) == \E d \in 1..10 : DigitChars[d] = c
DigitValue(c) == (CHOOSE d \in 1..10 : DigitChars[d] = c) - 1
IsSpace(c) == c \in {" ", "\n"}

\* operator<< of an unsigned integer
RECURSIVE ToDecimal(_)
ToDecimal(n) ==
    IF n < 10 THEN <<DigitChars[n + 1]>>
    ELSE ToDecimal(n \div 10) \o <<DigitChars[(n % 10) + 1]>>

\* std::set<Pair<TSize> > iterates in the order of (i1, i2)
PairLess(p, q) == p[1] < q[1] \/ (p[1] = q[1] /\ p[2] < q[2])
RECURSIVE SortedPairs(_)
SortedPairs(P) ==
    IF P = {} THEN <<>>
    ELSE LET m == CHOOSE p \in P : \A q \in P \ {p} : PairLess(p, q)
         IN  <<m>> \o SortedPairs(P \ {m})

\* one line of writeAlignedPairs
PairLineMutNoSpace(p) == ToDecimal(p[1]) \o ToDecimal(p[2]) \o <<"\n">>
PairLine(p) == ToDecimal(p[1]) \o <<" ">> \o ToDecimal(p[2]) \o <<"\n">>

RECURSIVE LinesText(_)
LinesText(ps) == IF ps = <<>> THEN <<>> ELSE PairLine(Head(ps)) \o LinesText(Tail(ps))

writeAlignedPairs(P) == LinesText(SortedPairs(P))

\* operator>> of an unsigned integer: skips white space, then reads digits
RECURSIVE SkipSpace(_, _)
SkipSpace(s, i) == IF i <= Len(s) /\ IsSpace(s[i]) THEN SkipSpace(s, i + 1) ELSE i
RECURSIVE ReadDigits(_, _, _)
ReadDigits(s, i, acc) ==
    IF i <= Len(s) /\ IsDigit(s[i])
    THEN ReadDigits(s, i + 1, acc * 10 + DigitValue(s[i]))
    ELSE [val |-> acc, next |-> i]
ReadInt(s, i) ==
    LET j == SkipSpace(s, i) IN
    IF j <= Len(s) /\ IsDigit(s[j])
    THEN LET r == ReadDigits(s, j, 0) IN [ok |-> TRUE, val |-> r.val, next |-> r.next]
    ELSE [ok |-> FALSE, val |-> 0, next |-> j]

\* `stream >> key >> val` on the text s
ReadPair(s) ==
    LET k == ReadInt(s, 1)
        v == ReadInt(s, k.next)
    IN  [ok |-> k.ok /\ v.ok, key |-> k.val, val |-> v.val,
         rest |-> SubSeq(s, v.next, Len(s))]

(***************************************************************************)
(* readAlignedPairs                                                        *)
(***************************************************************************)
\* `if (key < len) key_rev = key + len; else key_rev = key - len;`
RevOf(key, len) == IF key < len THEN key + len ELSE key - len

\* `if (findSet(uf, key) == findSet(uf, val)) continue;`
RedundantMutNever(u, key, val) == FALSE
Redundant(u, key, val) == findSet(u, key) = findSet(u, val)

\* the joins of one line
LineJoinedMutNoTwin(u, key, val, len) == joinOf(u, key, val)
LineJoined(u, key, val, len) ==
    joinOf(joinOf(u, key, val), RevOf(key, len), RevOf(val, len))

\* the body of the reader's loop for one line: the new uf and pair set, and
\* whether the loop goes on to the next line
LineStepMutBreak(u, P, len, key, val) ==
    IF Redundant(u, key, val)
    THEN [uf |-> compress(compress(u, key), val), pairs |-> P, more |-> FALSE]
    ELSE [uf |-> LineJoined(u, key, val, len), pairs |-> P \cup {<<key, val>>},
          more |-> TRUE]
LineStep(u, P, len, key, val) ==
    IF Redundant(u, key, val)
    THEN [uf |-> compress(compress(u, key), val), pairs |-> P, more |-> TRUE]
    ELSE [uf |-> LineJoined(u, key, val, len), pairs |-> P \cup {<<key, val>>},
          more |-> TRUE]

\* readAlignedPairs over the text s
RECURSIVE readAlignedPairs(_, _, _, _)
readAlignedPairs(u, P, s, len) ==
    LET r == ReadPair(s) IN
    IF ~r.ok THEN [uf |-> u, pairs |-> P]
    ELSE LET t == LineStep(u, P, len, r.key, r.val)
         IN  IF t.more THEN readAlignedPairs(t.uf, t.pairs, r.rest, len)
             ELSE [uf |-> t.uf, pairs |-> t.pairs]

\* the loop of readAndMergeComponents over componentFiles
RECURSIVE ReadFiles(_, _, _, _)
ReadFiles(u, P, fs, len) ==
    IF fs = <<>> THEN [uf |-> u, pairs |-> P]
    ELSE LET t == readAlignedPairs(u, P, Head(fs), len)
         IN  ReadFiles(t.uf, t.pairs, Tail(fs), len)

(***************************************************************************)
(* unionFindToComponents, addSingletons                                    *)
(***************************************************************************)
Min(x, y) == IF x < y THEN x ELSE y

\* components[k].alignedPairs.insert(...) for each pair of ps
InsertAll(c, k, ps) ==
    (k :> ((IF k \in DOMAIN c THEN c[k] ELSE {}) \cup ps)) @@ c

\* `int set = std::min(findSet(uf, (*it).i1), findSet(uf, rev1));`
ComponentKeyMutFirst(u, p, N) == findSet(u, p[1])
ComponentKey(u, p, N) == Min(findSet(u, p[1]), findSet(u, globalIndexRC(p[1], N)))

\* the four pairs stored for one aligned pair
StoredPairs(p, N) ==
    LET rev1 == globalIndexRC(p[1], N)
        rev2 == globalIndexRC(p[2], N)
    IN  {p, <<p[2], p[1]>>, <<rev1, rev2>>, <<rev2, rev1>>}

RECURSIVE ComponentsLoop(_, _, _, _)
ComponentsLoop(c, u, ps, N) ==
    IF ps = <<>> THEN [components |-> c, uf |-> u]
    ELSE LET p == Head(ps)
         IN  ComponentsLoop(InsertAll(c, ComponentKey(u, p, N), StoredPairs(p, N)),
                            compress(compress(u, p[1]), globalIndexRC(p[1], N)),
                            Tail(ps), N)

\* unionFindToComponents on an empty components map; its skipped set is empty
unionFindToComponents(u, P, N) == ComponentsLoop(<<>>, u, SortedPairs(P), N)

\* the ids the loop `for (int i = 0; i < totalContigs; ++i)` visits
SingletonRangeMutNone(totalContigs) == {}
SingletonRange(totalContigs) == 0 .. (totalContigs - 1)

\* addSingletons(components, skipped, uf, totalContigs); skipped is the empty
\* set unionFindToComponents returns
addSingletons(c, u, totalContigs) ==
    LET new == {i \in SingletonRange(totalContigs) :
                    i \notin DOMAIN c /\ i = findSet(u, i)}
    IN  c @@ [x \in new |-> {}]

\* unionFindToComponents followed by addSingletons, as readAndMergeComponents
\* calls them (totalContigs = batch.contigsInTotal)
Assemble(u, P, N) ==
    LET r == unionFindToComponents(u, P, N)
    IN  addSingletons(r.components, r.uf, N)

\* the keys of a std::map in iteration order
RECURSIVE SortedKeys(_)
SortedKeys(S) ==
    IF S = {} THEN <<>>
    ELSE LET m == CHOOSE x \in S : \A y \in S : x <= y
         IN  <<m>> \o SortedKeys(S \ {m})

\* `if (i % total != batch.number) components.erase(element);`
ErasedMutNext(i, total, number) == i % total # (number + 1) % total
Erased(i, total, number) == i % total # number

\* The loop `while (i > 0)` of readAndMergeComponents from i on: element is the
\* i-th key from the front, and i is decremented before the test.  (The last
\* `--it` steps before begin(); that iterator is never used.)
RECURSIVE KeepBatchLoop(_, _, _, _, _)
KeepBatchLoop(c, keys, i, total, number) ==
    IF i = 0 THEN c
    ELSE LET element == keys[i]
             kept == IF Erased(i - 1, total, number)
                     THEN [k \in DOMAIN c \ {element} |-> c[k]]
                     ELSE c
         IN  KeepBatchLoop(kept, keys, i - 1, total, number)

\* `if (total != 1) { ... }`
KeepBatch(c, total, number) ==
    IF total # 1
    THEN KeepBatchLoop(c, SortedKeys(DOMAIN c), Cardinality(DOMAIN c), total, number)
    ELSE c

(***************************************************************************)
(* ComponentGraph (src/popins_merge_seqs.h): graph[v] is the list of the   *)
(* targets of v's out-edges in the order an OutEdgeIterator visits them,   *)
(* sources the list of source vertices, sequenceMap[v] the label of v.     *)
(* Vertex descriptors are 0, 1, ...; a sequence is a tuple of bases.       *)
(***************************************************************************)
EmptyGraph == [graph |-> <<>>, sources |-> <<>>, sequenceMap |-> <<>>]

numVertices(g) == Cardinality(DOMAIN g.sequenceMap)

\* addVertex(graph, seq): the new vertex is numVertices(g)
addVertex(g, seq) ==
    LET v == numVertices(g)
    IN  [g EXCEPT !.sequenceMap = (v :> seq) @@ @, !.graph = (v :> <<>>) @@ @]

\* addEdge(graph.graph, u, v): the new edge is the first an iterator visits
addEdge(g, u, v) == [g EXCEPT !.graph[u] = <<v>> \o @]

\* the loop of splitVertex: addEdge(graph.graph, v, targetVertex(it)) for each
\* out-edge of u
RECURSIVE CopyOutEdges(_, _, _)
CopyOutEdges(g, v, targets) ==
    IF targets = <<>> THEN g
    ELSE CopyOutEdges(addEdge(g, v, Head(targets)), v, Tail(targets))

\* splitVertex(graph, u, uSeq, vSeq): the new vertex is numVertices(g)
splitVertexMutKeepEdges(g, u, uSeq, vSeq) ==
    LET v == numVertices(g)
        g1 == CopyOutEdges(addVertex(g, vSeq), v, g.graph[u])
        g3 == [g1 EXCEPT !.sequenceMap[u] = uSeq]
    IN  addEdge(g3, u, v)
splitVertexMutNoCopy(g, u, uSeq, vSeq) ==
    LET v == numVertices(g)
        g1 == addVertex(g, vSeq)
        g2 == [g1 EXCEPT !.graph[u] = <<>>]
        g3 == [g2 EXCEPT !.sequenceMap[u] = uSeq]
    IN  addEdge(g3, u, v)
splitVertex(g, u, uSeq, vSeq) ==
    LET v == numVertices(g)
        g1 == CopyOutEdges(addVertex(g, vSeq), v, g.graph[u])
        g2 == [g1 EXCEPT !.graph[u] = <<>>]
        g3 == [g2 EXCEPT !.sequenceMap[u] = uSeq]
    IN  addEdge(g3, u, v)

\* ComponentGraph(seq)
NewComponentGraph(seq) ==
    [addVertex(EmptyGraph, seq) EXCEPT !.sources = <<0>>]

(***************************************************************************)
(* enumeratePaths.  A Path is its seq and its positionMap (a function from *)
(* keys to vertices); walk lists the vertices the recursion went through.  *)
(***************************************************************************)
EmptyPath == [seq |-> <<>>, positionMap |-> <<>>, walk |-> <<>>]

\* `append(prevPath.seq, ...); prevPath.positionMap[length(prevPath.seq)] = v;`
PositionKey(prevPath, label) == Len(prevPath.seq) + Len(label)

Visit(g, prevPath, v) ==
    [seq |-> prevPath.seq \o g.sequenceMap[v],
     positionMap |-> (PositionKey(prevPath, g.sequenceMap[v]) :> v) @@ prevPath.positionMap,
     walk |-> Append(prevPath.walk, v)]

RECURSIVE enumeratePathsDfs(_, _, _)
RECURSIVE DfsOutEdges(_, _, _)
enumeratePathsDfs(g, prevPath, v) ==
    LET path == Visit(g, prevPath, v)
    IN  IF g.graph[v] = <<>> THEN <<path>> ELSE DfsOutEdges(g, path, g.graph[v])
DfsOutEdges(g, path, targets) ==
    IF targets = <<>> THEN <<>>
    ELSE enumeratePathsDfs(g, path, Head(targets)) \o DfsOutEdges(g, path, Tail(targets))

RECURSIVE PathsFrom(_, _)
PathsFrom(g, srcs) ==
    IF srcs = <<>> THEN <<>>
    ELSE enumeratePathsDfs(g, EmptyPath, Head(srcs)) \o PathsFrom(g, Tail(srcs))

enumeratePaths(g) == PathsFrom(g, g.sources)

(***************************************************************************)
(* The local alignment of a contig against a path, as far as               *)
(* mergeSeqWithGraph reads it: the begin and end positions of the aligned  *)
(* parts.  An alignment is a longest stretch the two sequences share; its  *)
(* score is matchScore for each base of it.  Two sequences that share no   *)
(* base give score 0, and gaps that are either clipped to the empty        *)
(* alignment at position 0 of both or left over the whole of both.         *)
(***************************************************************************)
MatchScore == 1

SharedAt(seq, pathSeq, bs, bp, n) ==
    /\ bs + n <= Len(seq) /\ bp + n <= Len(pathSeq)
    /\ \A k \in 1 .. n : seq[bs + k] = pathSeq[bp + k]

SharedLengths(seq, pathSeq) ==
    {n \in 1 .. Len(seq) :
        \E bs \in 0 .. (Len(seq) - n) : \E bp \in 0 .. (Len(pathSeq) - n) :
            SharedAt(seq, pathSeq, bs, bp, n)}

LongestShared(seq, pathSeq) ==
    LET ns == SharedLengths(seq, pathSeq)
    IN  IF ns = {} THEN 0 ELSE CHOOSE n \in ns : \A m \in ns : m <= n

\* the score localAlignment returns
AlignmentScore(seq, pathSeq) == MatchScore * LongestShared(seq, pathSeq)

\* the gaps localAlignment may leave: alignBeginSeq, alignEndSeq,
\* alignBeginPath, alignEndPath
Alignments(seq, pathSeq) ==
    LET n == LongestShared(seq, pathSeq)
    IN  IF n = 0
        THEN {[alignBeginSeq |-> 0, alignEndSeq |-> 0, alignBeginPath |-> 0, alignEndPath |-> 0],
              [alignBeginSeq |-> 0, alignEndSeq |-> Len(seq),
               alignBeginPath |-> 0, alignEndPath |-> Len(pathSeq)]}
        ELSE {[alignBeginSeq |-> bs, alignEndSeq |-> bs + n,
               alignBeginPath |-> bp, alignEndPath |-> bp + n] :
                 <<bs, bp>> \in {x \in (0 .. Len(seq)) \X (0 .. Len(pathSeq)) :
                                    SharedAt(seq, pathSeq, x[1], x[2], n)}}

\* the loop over the paths of addSequencesToGraph: the index of the first path
\* whose score is greater than that of every path before it and at least that
\* of every path after it
BestPathIndex(paths, seq) ==
    CHOOSE j \in 1 .. Len(paths) :
        /\ \A k \in 1 .. (j - 1) :
              AlignmentScore(seq, paths[k].seq) < AlignmentScore(seq, paths[j].seq)
        /\ \A k \in (j + 1) .. Len(paths) :
              AlignmentScore(seq, paths[k].seq) <= AlignmentScore(seq, paths[j].seq)

(***************************************************************************)
(* mergeSeqWithGraph                                                       *)
(***************************************************************************)
\* path.positionMap.lower_bound(at)->first
LowerBound(positionMap, at) ==
    CHOOSE k \in DOMAIN positionMap :
        k >= at /\ \A j \in DOMAIN positionMap : j >= at => k <= j

\* path.positionMap.upper_bound(at)->first
UpperBound(positionMap, at) ==
    CHOOSE k \in DOMAIN positionMap :
        k > at /\ \A j \in DOMAIN positionMap : j > at => k <= j

\* `length(seq) - alignEndSeq > (TSize)minBranchLen`, `alignBeginSeq > (TSize)minBranchLen`
\* the cast turns a negative minBranchLen into a value above every length
LongerThanBranchLenMutGeq(n, minBranchLen) == minBranchLen >= 0 /\ n >= minBranchLen
LongerThanBranchLen(n, minBranchLen) == minBranchLen >= 0 /\ n > minBranchLen

\* the right end of the alignment
RightEnd(g, path, seq, al, minBranchLen) ==
    IF ~(al.alignEndSeq < Len(seq)) THEN g
    ELSE LET vPos == LowerBound(path.positionMap, al.alignEndPath)
             v == path.positionMap[vPos]
             suf == SubSeq(seq, al.alignEndSeq + 1, Len(seq))
         IN  IF al.alignEndPath = Len(path.seq)
             THEN [g EXCEPT !.sequenceMap[v] = @ \o suf]
             ELSE IF LongerThanBranchLen(Len(seq) - al.alignEndSeq, minBranchLen)
                  THEN LET label == g.sequenceMap[v]
                           splitPos == Len(label) - (vPos - al.alignEndPath)
                           g1 == IF vPos > al.alignEndPath
                                 THEN splitVertex(g, v, SubSeq(label, 1, splitPos),
                                                  SubSeq(label, splitPos + 1, Len(label)))
                                 ELSE g
                           vBranch == numVertices(g1)
                       IN  addEdge(addVertex(g1, suf), v, vBranch)
                  ELSE g

\* `uPos - length(compGraph.sequenceMap[u]) < alignBeginPath` on unsigned
\* positions: when the label is longer than uPos the difference wraps around
\* to a value above every position
StartsBefore(uPos, labelLen, alignBeginPath) ==
    IF labelLen > uPos THEN FALSE ELSE uPos - labelLen < alignBeginPath

\* the left end of the alignment; path is the path enumerated before the
\* right end was handled
LeftEnd(g, path, seq, al, minBranchLen) ==
    IF ~(al.alignBeginSeq > 0) THEN g
    ELSE LET uPos == UpperBound(path.positionMap, al.alignBeginPath)
             u == path.positionMap[uPos]
             pref == SubSeq(seq, 1, al.alignBeginSeq)
         IN  IF al.alignBeginPath = 0
             THEN [g EXCEPT !.sequenceMap[u] = pref \o @]
             ELSE IF LongerThanBranchLen(al.alignBeginSeq, minBranchLen)
                  THEN LET label == g.sequenceMap[u]
                           split == StartsBefore(uPos, Len(label), al.alignBeginPath)
                           splitPos == Len(label) - (uPos - al.alignBeginPath)
                           g1 == IF split
                                 THEN splitVertex(g, u, SubSeq(label, 1, splitPos),
                                                  SubSeq(label, splitPos + 1, Len(label)))
                                 ELSE g
                           uSplit == IF split THEN numVertices(g) ELSE u
                           uBranch == numVertices(g1)
                           g2 == addVertex(g1, pref)
                       IN  addEdge([g2 EXCEPT !.sources = Append(@, uBranch)], uBranch, uSplit)
                  ELSE g

mergeSeqWithGraphMutOwnVertex(g, path, seq, al, minBranchLen) ==
    LET g1 == LeftEnd(RightEnd(g, path, seq, al, minBranchLen), path, seq, al, minBranchLen)
    IN  IF g1 = g THEN [addVertex(g, seq) EXCEPT !.sources = Append(@, numVertices(g))]
        ELSE g1
mergeSeqWithGraph(g, path, seq, al, minBranchLen) ==
    LeftEnd(RightEnd(g, path, seq, al, minBranchLen), path, seq, al, minBranchLen)

(***************************************************************************)
(* getSeqsByAlignOrder, writeSupercontigs                                  *)
(***************************************************************************)
\* the i2 of the pairs between lower_bound(Pair(x, 0)) and
\* upper_bound(Pair(x, maxValue))
NeighborsMutAll(P, x) == {p[2] : p \in P}
Neighbors(P, x) == {p[2] : p \in {q \in P : q[1] = x}}

\* the for loop over the neighbors: a neighbor not yet ordered is appended
RECURSIVE AddNeighbors(_, _)
AddNeighbors(order, ns) ==
    IF ns = <<>> THEN order
    ELSE IF \E k \in 1 .. Len(order) : order[k] = Head(ns)
         THEN AddNeighbors(order, Tail(ns))
         ELSE AddNeighbors(Append(order, Head(ns)), Tail(ns))

\* `while (i < length(order))`, i counted from 1 here
RECURSIVE OrderLoop(_, _, _)
OrderLoop(P, order, i) ==
    IF i > Len(order) THEN order
    ELSE OrderLoop(P, AddNeighbors(order, SortedKeys(Neighbors(P, order[i]))), i + 1)

\* the order getSeqsByAlignOrder finds for a component with the pairs P (P is
\* not empty)
getSeqsByAlignOrder(P) == OrderLoop(P, <<SortedPairs(P)[1][1]>>, 1)

Letters ==
    <<"a", "b", "c", "d", "e", "f", "g", "h", "i", "j", "k", "l", "m",
      "n", "o", "p", "q", "r", "s", "t", "u", "v", "w", "x", "y", "z">>

\* `if (length(mergedSeqs) <= 25)`
SingleLetterTagsMut26(n) == n <= 26
SingleLetterTags(n) == n <= 25

\* the tag of mergedSeqs[i] among n: char('a'+i), or char('a'+i/26) char('a'+i%26)
Tag(i, n) ==
    IF SingleLetterTags(n) THEN <<Letters[i + 1]>>
    ELSE <<Letters[(i \div 26) + 1], Letters[(i % 26) + 1]>>

\* the records writeSupercontigs writes for mergedSeqs: the tag, length and
\* size of the name line, and the sequence line
writeSupercontigs(mergedSeqs, contigsOfComponent, position) ==
    [k \in 1 .. Len(mergedSeqs) |->
        [pos |-> position, tag |-> Tag(k - 1, Len(mergedSeqs)),
         length |-> Len(mergedSeqs[k]), size |-> Len(contigsOfComponent),
         seq |-> mergedSeqs[k]]]

(***************************************************************************)
(* Inputs                                                                  *)
(***************************************************************************)
\* scores of a banded alignment around the threshold
Scores == {MinScore, MinScore + 1}

\* ids follow the traversal of the sample files: the sample index never
\* decreases with the id
SampleFns(N) ==
    {s \in [0 .. (N - 1) -> 0 .. (N - 1)] :
        s[0] = 0 /\ \A i \in 1 .. (N - 1) : s[i] \in {s[i - 1], s[i - 1] + 1}}

\* sequences over S of length at most n
SeqsUpTo(S, n) == UNION {[1 .. k -> S] : k \in 0 .. n}

\* the hits of query x among the hits g of a whole run (a, b, score)
RECURSIVE HitsOf(_, _)
HitsOf(g, x) ==
    IF g = <<>> THEN <<>>
    ELSE (IF Head(g)[1] = x THEN <<[b |-> Head(g)[2], score |-> Head(g)[3]]>> ELSE <<>>)
         \o HitsOf(Tail(g), x)

NonDecreasing(g) == \A i \in 1 .. (Len(g) - 1) : g[i][1] <= g[i + 1][1]

\* the orders in which a finder may emit the hits hs
OrdersOf(hs) ==
    {[i \in 1 .. Len(hs) |-> hs[q[i]]] :
        q \in {r \in [1 .. Len(hs) -> 1 .. Len(hs)] :
                  \A i, j \in 1 .. Len(hs) : r[i] = r[j] => i = j}}

NoMerge ==
    /\ files = <<>> /\ f = 0 /\ stream = <<>>
    /\ mUf = <<>> /\ mPairs = {} /\ components = <<>>
    /\ totalBatches = 1 /\ batchNumber = 0

\* a ContigComponent before getSeqsByAlignOrder
EmptyComponent == [alignedPairs |-> {}, ids |-> <<>>, contigs |-> <<>>]

\* constructSupercontigs' locals before its loop
SupercontigsBegin ==
    /\ compIt = 1 /\ pos = 0 /\ component = EmptyComponent
    /\ compGraph = EmptyGraph /\ seqIndex = 0 /\ outputStream = <<>>
    /\ numBranching = 0 /\ numVeryBranching = 0 /\ numTooLarge = 0 /\ numSingleton = 0

\* no function is called on its own
NoCall == call = <<>> /\ ret = <<>>

NoSupercontigs ==
    /\ contigSeqs = <<>> /\ numContigFiles = 1 /\ minTipScore = 0
    /\ SupercontigsBegin

\* a run of partitionContigs over n contigs: the caller hands over a fresh
\* UnionFind and an empty pair set
InitPartition(n, sampleFns, contigSets, maxHits, scores) ==
    /\ contigsInTotal = n
    /\ sample \in sampleFns
    /\ contigs \in contigSets
    /\ offset \in 0 .. (n - 1)
    /\ width \in 1 .. (n - offset)
    /\ \E g \in SeqsUpTo(contigs \X contigs \X scores, maxHits) :
          /\ NonDecreasing(g)
          /\ hits = [x \in 0 .. (n - 1) |-> HitsOf(g, x)]
    /\ uf = resizeUF(n) /\ alignedPairs = {} /\ ufAll = resizeUF(n)
    /\ a = 0 /\ h = 1
    /\ pc = "partition"
    /\ NoMerge /\ NoSupercontigs /\ NoCall

AllContigs(n) == 0 .. (n - 1)

InitSmall ==
    InitPartition(SmallN, SampleFns(SmallN),
                  {AllContigs(SmallN) \ S : S \in {{}} \cup {{x} : x \in AllContigs(SmallN)}},
                  MaxHits, Scores)

\* the text of a pair file with the lines ls, "<id_a> <id_b>\n" each
LinesOf(ls) == LinesText(ls)

\* a run of readAndMergeComponents over pair files found on disk
InitMerge ==
    /\ contigsInTotal = MergeN
    /\ sample = <<>> /\ contigs = {} /\ offset = 0 /\ width = 0 /\ hits = <<>>
    /\ uf = <<>> /\ alignedPairs = {} /\ ufAll = <<>> /\ a = 0 /\ h = 1
    /\ \E ls \in SeqsUpTo(Ids(MergeN) \X Ids(MergeN), MaxLines) :
       \E k \in 0 .. Len(ls) :
          files = <<LinesOf(SubSeq(ls, 1, k)), LinesOf(SubSeq(ls, k + 1, Len(ls)))>>
    /\ f = 0 /\ stream = <<>> /\ mUf = <<>> /\ mPairs = {} /\ components = <<>>
    /\ totalBatches = 1 /\ batchNumber = 0
    /\ pc = "written"
    /\ NoSupercontigs /\ NoCall

Init == InitSmall \/ InitMerge

\* runs of readAndMergeComponents as batch batchNumber of totalBatches, over
\* one pair file
InitShard ==
    /\ contigsInTotal = ShardN
    /\ sample = <<>> /\ contigs = {} /\ offset = 0 /\ width = 0 /\ hits = <<>>
    /\ uf = <<>> /\ alignedPairs = {} /\ ufAll = <<>> /\ a = 0 /\ h = 1
    /\ \E ls \in SeqsUpTo(Ids(ShardN) \X Ids(ShardN), ShardLines) :
          files = <<LinesOf(ls)>>
    /\ f = 0 /\ stream = <<>> /\ mUf = <<>> /\ mPairs = {} /\ components = <<>>
    /\ totalBatches \in 1 .. MaxBatches
    /\ batchNumber \in 0 .. (totalBatches - 1)
    /\ pc = "written"
    /\ NoSupercontigs /\ NoCall

\* the words a line of a pair file found on disk is made of: ids of the
\* UnionFind, ids behind its end, and a word that is no number
Words == {ToDecimal(i) : i \in 0 .. (2 * PairsN)} \cup {<<"x">>}

RECURSIVE WordLines(_)
WordLines(ws) ==
    IF ws = <<>> THEN <<>>
    ELSE Head(ws)[1] \o <<" ">> \o Head(ws)[2] \o <<"\n">> \o WordLines(Tail(ws))

\* a run of readAndMergeComponents over one pair file found on disk, of any
\* words
InitReadPairs ==
    /\ contigsInTotal = PairsN
    /\ sample = <<>> /\ contigs = {} /\ offset = 0 /\ width = 0 /\ hits = <<>>
    /\ uf = <<>> /\ alignedPairs = {} /\ ufAll = <<>> /\ a = 0 /\ h = 1
    /\ \E ws \in SeqsUpTo(Words \X Words, PairsLines) : files = <<WordLines(ws)>>
    /\ f = 0 /\ stream = <<>> /\ mUf = <<>> /\ mPairs = {} /\ components = <<>>
    /\ totalBatches = 1 /\ batchNumber = 0
    /\ pc = "written"
    /\ NoSupercontigs /\ NoCall

\* partitioning runs whose pair file is read back: contigs of different
\* samples, the last one filtered or not, every hit verified
InitRoundTrip ==
    InitPartition(RoundTripN, {[i \in AllContigs(RoundTripN) |-> i]},
                  {AllContigs(RoundTripN), AllContigs(RoundTripN) \ {RoundTripN - 1}},
                  RoundTripHits, {MinScore + 1})

\* partitioning runs around the size cut-off: contigs 0 .. len-1 form a chain
\* (each hits its successor) of 98, 99 or 100 contigs, the chain's last contig
\* has up to two more hits on the last two contigs, and the last contig but one
\* may hit the last
InitBig ==
    /\ contigsInTotal = BigN
    /\ sample = [i \in AllContigs(BigN) |-> i]
    /\ contigs \in {AllContigs(BigN), AllContigs(BigN) \ {BigN - 1}}
    /\ offset = 0 /\ width = BigN
    /\ \E len \in (BigN - 4) .. (BigN - 2) :
       \E more \in SeqsUpTo(({BigN - 2, BigN - 1} \cap contigs) \X Scores, 2) :
       \E last \in {<<>>} \cup {<<[b |-> y, score |-> MinScore + 1]>> : y \in {BigN - 1} \cap contigs} :
          hits = [x \in AllContigs(BigN) |->
                    (IF x < len - 1 THEN <<[b |-> x + 1, score |-> MinScore + 1]>> ELSE <<>>)
                    \o (IF x = len - 1
                        THEN [i \in 1 .. Len(more) |-> [b |-> more[i][1], score |-> more[i][2]]]
                        ELSE <<>>)
                    \o (IF x = BigN - 2 THEN last ELSE <<>>)]
    /\ uf = resizeUF(BigN) /\ alignedPairs = {} /\ ufAll = resizeUF(BigN)
    /\ a = 0 /\ h = 1
    /\ pc = "partition"
    /\ NoMerge /\ NoSupercontigs /\ NoCall

(***************************************************************************)
(* partitionContigs, one pass of a loop at a time                          *)
(***************************************************************************)
MergeUnchanged == UNCHANGED <<files, f, stream, mUf, mPairs, components>>
SupercontigsUnchanged ==
    UNCHANGED <<contigSeqs, numContigFiles, minTipScore, compIt, pos, component,
                compGraph, seqIndex, outputStream, numBranching, numVeryBranching,
                numTooLarge, numSingleton>>
InputUnchanged ==
    UNCHANGED <<contigsInTotal, sample, contigs, offset, width, hits,
                totalBatches, batchNumber, call, ret>>
PartitionUnchanged == UNCHANGED <<uf, alignedPairs, ufAll, a, h>>

\* `if (contigs.count(a) == 0) continue;`
PartitionSkipContig ==
    /\ pc = "partition"
    /\ a < QueryLimit(offset, width)
    /\ a \notin contigs
    /\ a' = a + 1 /\ h' = 1
    /\ UNCHANGED <<uf, alignedPairs, ufAll, pc>>
    /\ InputUnchanged /\ SupercontigsUnchanged /\ MergeUnchanged

\* the body of `while (find(swiftFinder, swiftPattern, ...))` for the next hit
PartitionHit ==
    /\ pc = "partition"
    /\ a < QueryLimit(offset, width)
    /\ a \in contigs
    /\ h <= Len(hits[a])
    /\ LET r == HitStep(uf, alignedPairs, contigsInTotal, a, hits[a][h], TRUE) IN
          /\ uf' = r.uf
          /\ alignedPairs' = r.pairs
          /\ IF r.brk THEN a' = a + 1 /\ h' = 1 ELSE a' = a /\ h' = h + 1
          \* the reference handles this hit too, and after a `break` the hits left
          /\ ufAll' = QueryRun(ufAll, {}, contigsInTotal, a,
                               SubSeq(hits[a], 1, IF r.brk THEN Len(hits[a]) ELSE h),
                               h, FALSE).uf
    /\ UNCHANGED pc
    /\ InputUnchanged /\ SupercontigsUnchanged /\ MergeUnchanged

\* find(swiftFinder, ...) returns false: the next contig
PartitionFinderEnd ==
    /\ pc = "partition"
    /\ a < QueryLimit(offset, width)
    /\ a \in contigs
    /\ h > Len(hits[a])
    /\ a' = a + 1 /\ h' = 1
    /\ UNCHANGED <<uf, alignedPairs, ufAll, pc>>
    /\ InputUnchanged /\ SupercontigsUnchanged /\ MergeUnchanged

\* the loop over the contigs ends: partitionContigs returns
PartitionReturn ==
    /\ pc = "partition"
    /\ a >= QueryLimit(offset, width)
    /\ pc' = "partitioned"
    /\ PartitionUnchanged /\ InputUnchanged /\ SupercontigsUnchanged /\ MergeUnchanged

NextPartition ==
    \/ PartitionSkipContig
    \/ PartitionHit
    \/ PartitionFinderEnd
    \/ PartitionReturn

(***************************************************************************)
(* writeAlignedPairs, readAndMergeComponents                               *)
(***************************************************************************)
WriteAlignedPairs ==
    /\ pc = "partitioned"
    /\ files' = <<writeAlignedPairs(alignedPairs)>>
    /\ pc' = "written"
    /\ UNCHANGED <<f, stream, mUf, mPairs, components>>
    /\ PartitionUnchanged /\ InputUnchanged /\ SupercontigsUnchanged

\* readAndMergeComponents up to its loop over componentFiles
ReadAndMergeBegin ==
    /\ pc = "written"
    /\ mUf' = resizeUF(contigsInTotal)
    /\ mPairs' = {}
    /\ f' = 1
    /\ pc' = "open"
    /\ UNCHANGED <<files, stream, components>>
    /\ PartitionUnchanged /\ InputUnchanged /\ SupercontigsUnchanged

\* readAlignedPairs opens componentFiles[f]
OpenFile ==
    /\ pc = "open"
    /\ f <= Len(files)
    /\ stream' = files[f]
    /\ pc' = "lines"
    /\ UNCHANGED <<files, f, mUf, mPairs, components>>
    /\ PartitionUnchanged /\ InputUnchanged /\ SupercontigsUnchanged

\* key and val are elements of the UnionFind
InIds(r, len) == r.key \in Ids(len) /\ r.val \in Ids(len)

\* one pass of `while (stream >> key >> val)`
ReadLine ==
    /\ pc = "lines"
    /\ LET r == ReadPair(stream) IN
          /\ r.ok
          /\ InIds(r, contigsInTotal)
          /\ LET t == LineStep(mUf, mPairs, contigsInTotal, r.key, r.val) IN
                /\ mUf' = t.uf
                /\ mPairs' = t.pairs
                /\ stream' = IF t.more THEN r.rest ELSE <<>>
    /\ UNCHANGED <<files, f, components, pc>>
    /\ PartitionUnchanged /\ InputUnchanged /\ SupercontigsUnchanged

\* `stream >> key >> val` fails: readAlignedPairs returns 0
ReadFileEnd ==
    /\ pc = "lines"
    /\ ~ReadPair(stream).ok
    /\ stream' = <<>>
    /\ f' = f + 1
    /\ pc' = "open"
    /\ UNCHANGED <<files, mUf, mPairs, components>>
    /\ PartitionUnchanged /\ InputUnchanged /\ SupercontigsUnchanged

\* one pass of `while (stream >> key >> val)` for a key or val that is no
\* element of the UnionFind: findSet and joinSets read and write behind the end
\* of its values.  The run stops there, or what was read makes the two sets
\* look equal and the line is passed over, or the pair is inserted and the
\* writes land outside the values.
ReadLineOutside ==
    /\ pc = "lines"
    /\ LET r == ReadPair(stream) IN
          /\ r.ok
          /\ ~InIds(r, contigsInTotal)
          /\ \/ pc' = "aborted" /\ UNCHANGED <<stream, mPairs>>
             \/ pc' = pc /\ stream' = r.rest /\ mPairs' = mPairs
             \/ pc' = pc /\ stream' = r.rest /\ mPairs' = mPairs \cup {<<r.key, r.val>>}
    /\ UNCHANGED <<files, f, mUf, components>>
    /\ PartitionUnchanged /\ InputUnchanged /\ SupercontigsUnchanged

\* `skipped = unionFindToComponents(components, uf, alignedPairs, batch);`
UnionFindToComponents ==
    /\ pc = "open"
    /\ f > Len(files)
    /\ LET r == unionFindToComponents(mUf, mPairs, contigsInTotal) IN
          /\ components' = r.components
          /\ mUf' = r.uf
    /\ pc' = "singletons"
    /\ UNCHANGED <<files, f, stream, mPairs>>
    /\ PartitionUnchanged /\ InputUnchanged /\ SupercontigsUnchanged

\* `addSingletons(components, skipped, uf, batch.contigsInTotal);`
AddSingletons ==
    /\ pc = "singletons"
    /\ components' = addSingletons(components, mUf, contigsInTotal)
    /\ pc' = "done"
    /\ UNCHANGED <<files, f, stream, mUf, mPairs>>
    /\ PartitionUnchanged /\ InputUnchanged /\ SupercontigsUnchanged

\* `Keep only batch of components`, and readAndMergeComponents returns 0
KeepBatchOfComponents ==
    /\ pc = "done"
    /\ components' = KeepBatch(components, totalBatches, batchNumber)
    /\ pc' = "returned"
    /\ UNCHANGED <<files, f, stream, mUf, mPairs>>
    /\ PartitionUnchanged /\ InputUnchanged /\ SupercontigsUnchanged

NextReadAndMerge ==
    \/ ReadAndMergeBegin
    \/ OpenFile
    \/ ReadLine
    \/ ReadFileEnd
    \/ UnionFindToComponents
    \/ AddSingletons
    \/ KeepBatchOfComponents

NextMerge ==
    \/ WriteAlignedPairs
    \/ NextReadAndMerge

Next == NextPartition \/ NextMerge

Spec == Init /\ [][Next]_vars

SpecRoundTrip == InitRoundTrip /\ [][Next]_vars

SpecCutoff == InitBig /\ [][NextPartition]_vars

SpecShard == InitShard /\ [][NextReadAndMerge]_vars

\* readAlignedPairs over one pair file of any text
NextReadPairs ==
    \/ ReadAndMergeBegin
    \/ OpenFile
    \/ ReadLine
    \/ ReadLineOutside
    \/ ReadFileEnd

SpecReadPairs == InitReadPairs /\ [][NextReadPairs]_vars

(***************************************************************************)
(* constructSupercontigs, one component and one graft at a time            *)
(***************************************************************************)
\* the two bases of the sequences of the small runs; complementary, so that
\* both strands of a contig are sequences over them
Bases == {"A", "T"}

\* a stretch of bases is written as one symbol in the runs with many
\* branches; its complement is the symbol with a prime
complement(b) ==
    IF b = "A" THEN "T" ELSE IF b = "T" THEN "A"
    ELSE IF b = "C" THEN "G" ELSE IF b = "G" THEN "C" ELSE b \o "'"

reverseComplement(seq) == [k \in 1 .. Len(seq) |-> complement(seq[Len(seq) + 1 - k])]

\* the contigs map of both strands, from the forward sequences fwd of n contigs
BothStrands(fwd, n) ==
    [x \in Ids(n) |-> IF x < n THEN fwd[x] ELSE reverseComplement(fwd[x - n])]

\* the pairs unionFindToComponents stores for the aligned pairs E of n contigs
PairsOf(E, n) ==
    UNION {{<<e[1], e[2]>>, <<e[2], e[1]>>,
            <<globalIndexRC(e[1], n), globalIndexRC(e[2], n)>>,
            <<globalIndexRC(e[2], n), globalIndexRC(e[1], n)>>} : e \in E}

\* the partitioning and merging stages are over
StagesIdle(n) ==
    /\ contigsInTotal = n
    /\ sample = <<>> /\ contigs = {} /\ offset = 0 /\ width = 0 /\ hits = <<>>
    /\ uf = <<>> /\ alignedPairs = {} /\ ufAll = <<>> /\ a = 0 /\ h = 1
    /\ files = <<>> /\ f = 0 /\ stream = <<>> /\ mUf = <<>> /\ mPairs = {}
    /\ totalBatches = 1 /\ batchNumber = 0

StagesOver(n) == StagesIdle(n) /\ NoCall /\ pc = "construct"

\* a function called on its own, outside the stages of the merge
Standalone == StagesIdle(0) /\ NoSupercontigs /\ components = <<>>
StandaloneUnchanged ==
    /\ UNCHANGED <<contigsInTotal, sample, contigs, offset, width, hits,
                   totalBatches, batchNumber>>
    /\ PartitionUnchanged /\ MergeUnchanged /\ SupercontigsUnchanged

\* aligned pairs of GraftN contigs: a pair, chains, a star, a triangle, and a
\* chain through the reverse strand of contig 1
GraftShapes ==
    {{<<0, 1>>}, {<<1, 2>>}, {<<0, 1>>, <<1, 2>>}, {<<0, 2>>, <<1, 2>>},
     {<<0, 1>>, <<0, 2>>}, {<<0, 1>>, <<0, 2>>, <<1, 2>>},
     {<<0, GraftN + 1>>, <<1, 2>>}}

\* the contigs of the pairs E
ContigsOf(E, n) == {e[1] % n : e \in E} \cup {e[2] % n : e \in E}

\* the sequences of the contigs of the small runs: up to MaxSeqLen of the two
\* bases, or one that shares no base with those
GraftSeqs == (SeqsUpTo(Bases, MaxSeqLen) \ {<<>>}) \cup {<<"C", "C">>}

\* runs of constructSupercontigs over one component of up to GraftN contigs; a
\* contig in no pair is "A"
InitGraft ==
    /\ StagesOver(GraftN)
    /\ \E E \in GraftShapes :
          /\ components = (0 :> PairsOf(E, GraftN))
          /\ \E fwd \in [0 .. (GraftN - 1) -> GraftSeqs] :
                /\ \A x \in (0 .. (GraftN - 1)) \ ContigsOf(E, GraftN) : fwd[x] = <<"A">>
                /\ contigSeqs = BothStrands(fwd, GraftN)
    /\ numContigFiles = 1
    /\ minTipScore \in -1 .. MaxTipScore
    /\ SupercontigsBegin

Digits == <<"0", "1", "2", "3", "4", "5", "6", "7", "8", "9">>

\* the symbol of the i-th stretch of a kind
Stretch(kind, i) == kind \o Digits[(i \div 10) + 1] \o Digits[(i % 10) + 1]

\* contig i of a run with many branches: contig 0 is P X Q; in a grid contig i
\* is h_i X t_i, in a comb X t_i; the stretches share no base but X
BranchingContig(shape, i) ==
    IF i = 0 THEN <<"P", "X", "Q">>
    ELSE IF shape = "grid" THEN <<Stretch("h", i), "X", Stretch("t", i)>>
    ELSE <<"X", Stretch("t", i)>>

\* runs of constructSupercontigs over two components: contigs 0 .. k-1, each
\* aligned to contig 0, and the two equal contigs k and k+1
InitBranching ==
    \E shape \in {"grid", "comb"} :
    \E k \in 2 .. (IF shape = "grid" THEN MaxGrid ELSE MaxComb) :
       /\ StagesOver(k + 2)
       /\ components = (0 :> PairsOf({<<0, i>> : i \in 1 .. (k - 1)}, k + 2))
                        @@ (k :> PairsOf({<<k, k + 1>>}, k + 2))
       /\ contigSeqs = BothStrands([i \in 0 .. (k + 1) |->
                                       IF i < k THEN BranchingContig(shape, i)
                                       ELSE <<"A", "A", "T">>], k + 2)
       /\ numContigFiles \in {1, MaxContigFiles}
       /\ minTipScore = 0
       /\ SupercontigsBegin

\* the sequences of the contigs of the runs with singletons
SingletonSeqs == {<<"A">>, <<"T", "A">>, <<"C", "C">>}

\* no aligned pair, or one
SingletonShapes == {{}, {<<0, 1>>}, {<<1, 2>>}}

\* runs of constructSupercontigs over the components addSingletons leaves for
\* GraftN contigs: one with the aligned pair, if any, and one with no pairs
\* for every forward contig outside it
InitSingletons ==
    /\ StagesOver(GraftN)
    /\ \E E \in SingletonShapes :
          components =
             [x \in ((0 .. (GraftN - 1)) \ ContigsOf(E, GraftN))
                       \cup {e[1] : e \in E} |->
                 IF x \in ContigsOf(E, GraftN) THEN PairsOf(E, GraftN) ELSE {}]
    /\ \E fwd \in [0 .. (GraftN - 1) -> SingletonSeqs] :
          contigSeqs = BothStrands(fwd, GraftN)
    /\ numContigFiles = 1
    /\ minTipScore = 0
    /\ SupercontigsBegin

InitSupercontigs == InitGraft \/ InitBranching \/ InitSingletons

StagesUnchanged ==
    /\ PartitionUnchanged /\ InputUnchanged /\ MergeUnchanged
    /\ UNCHANGED <<contigSeqs, numContigFiles, minTipScore>>

\* the key the iterator `it` points at
ComponentAt(c, i) == c[SortedKeys(DOMAIN c)[i]]

AtEnd(c, i) == i > Cardinality(DOMAIN c)

\* what `(*component.alignedPairs.begin()).i1` may read when alignedPairs is
\* empty (begin() is end(), the read is undefined): an id of a contig, or a
\* value that is the id of no contig
BeginOfEmpty(n) == 0 .. (2 * n)

\* `ContigComponent component = it->second; getSeqsByAlignOrder(component, contigs);`
\* With no pair the order is the one id read through begin(), which has no
\* neighbors; an id of no contig ends the run at the lookup of line 193.
GetSeqsByAlignOrder ==
    /\ pc = "construct"
    /\ ~AtEnd(components, compIt)
    /\ LET P == ComponentAt(components, compIt)
       IN  \/ /\ P # {}
              /\ LET order == getSeqsByAlignOrder(P)
                 IN  component' = [alignedPairs |-> P, ids |-> order,
                                   contigs |-> [k \in 1 .. Len(order) |-> contigSeqs[order[k]]]]
              /\ pc' = "ordered"
           \/ /\ P = {}
              /\ \E x \in BeginOfEmpty(contigsInTotal) :
                    IF x \in DOMAIN contigSeqs
                    THEN /\ component' = [alignedPairs |-> P, ids |-> <<x>>,
                                          contigs |-> <<contigSeqs[x]>>]
                         /\ pc' = "ordered"
                    ELSE /\ component' = component
                         /\ pc' = "aborted"
    /\ StagesUnchanged
    /\ UNCHANGED <<compIt, pos, compGraph, seqIndex, outputStream, numBranching,
                   numVeryBranching, numTooLarge, numSingleton>>

\* `length(component.contigs) > 10 * length(options.contigFiles)`
TooLargeMutGeq(n, files_) == n >= SizeFactor * files_
TooLarge(n, files_) == n > SizeFactor * files_

\* `++numTooLarge; ++it; continue;`
SkipTooLarge ==
    /\ pc = "ordered"
    /\ TooLarge(Len(component.contigs), numContigFiles)
    /\ numTooLarge' = numTooLarge + 1
    /\ compIt' = compIt + 1
    /\ pc' = "construct"
    /\ StagesUnchanged
    /\ UNCHANGED <<pos, component, compGraph, seqIndex, outputStream, numBranching,
                   numVeryBranching, numSingleton>>

\* `if (length(component.contigs) == 1)`: the id and the contig are written,
\* `++numSingleton; continue;`
WriteSingleton ==
    /\ pc = "ordered"
    /\ ~TooLarge(Len(component.contigs), numContigFiles)
    /\ Len(component.contigs) = 1
    /\ outputStream' = Append(outputStream, [id |-> component.ids[1],
                                              seq |-> component.contigs[1]])
    /\ numSingleton' = numSingleton + 1
    /\ compIt' = compIt + 1
    /\ pc' = "construct"
    /\ StagesUnchanged
    /\ UNCHANGED <<pos, component, compGraph, seqIndex, numBranching,
                   numVeryBranching, numTooLarge>>

\* mergeSequences up to the loop of addSequencesToGraph: `TGraph compGraph(seqs[0]);`
MergeSequencesBegin ==
    /\ pc = "ordered"
    /\ ~TooLarge(Len(component.contigs), numContigFiles)
    /\ Len(component.contigs) # 1
    /\ compGraph' = NewComponentGraph(component.contigs[1])
    /\ seqIndex' = 1
    /\ pc' = "graft"
    /\ StagesUnchanged
    /\ UNCHANGED <<compIt, pos, component, outputStream, numBranching,
                   numVeryBranching, numTooLarge, numSingleton>>

\* `if (length(paths) > 30) return false;`
TooManyPathsMutNever(n) == FALSE
TooManyPaths(n) == n > MaxPaths

\* one pass of the loop of addSequencesToGraph: the paths are enumerated, the
\* best one chosen and seqs[i] merged with the graph along it
AddSequenceToGraph ==
    /\ pc = "graft"
    /\ seqIndex < Len(component.contigs)
    /\ LET paths == enumeratePaths(compGraph)
           seq == component.contigs[seqIndex + 1]
       IN  /\ ~TooManyPaths(Len(paths))
           /\ LET bestPath == paths[BestPathIndex(paths, seq)]
              IN  \E al \in Alignments(seq, bestPath.seq) :
                     compGraph' = mergeSeqWithGraph(compGraph, bestPath, seq, al, minTipScore)
    /\ seqIndex' = seqIndex + 1
    /\ StagesUnchanged
    /\ UNCHANGED <<pc, compIt, pos, component, outputStream, numBranching,
                   numVeryBranching, numTooLarge, numSingleton>>

\* addSequencesToGraph and mergeSequences return false:
\* `++numVeryBranching; ++numBranching; ... ++pos; ++it; continue;`
GiveUpComponent ==
    /\ pc = "graft"
    /\ seqIndex < Len(component.contigs)
    /\ TooManyPaths(Len(enumeratePaths(compGraph)))
    /\ numVeryBranching' = numVeryBranching + 1
    /\ numBranching' = numBranching + 1
    /\ pos' = pos + 1
    /\ compIt' = compIt + 1
    /\ component' = EmptyComponent
    /\ pc' = "construct"
    /\ StagesUnchanged
    /\ UNCHANGED <<compGraph, seqIndex, outputStream, numTooLarge, numSingleton>>

\* the sequences of the paths, in order
SeqsOfPaths(paths) == [k \in 1 .. Len(paths) |-> paths[k].seq]

\* the loop of addSequencesToGraph is over: mergeSequences enumerates the final
\* paths and returns true, the supercontigs are written
WriteSupercontigs ==
    /\ pc = "graft"
    /\ seqIndex >= Len(component.contigs)
    /\ LET mergedSeqs == SeqsOfPaths(enumeratePaths(compGraph))
       IN  /\ numBranching' = IF Len(mergedSeqs) > 1 THEN numBranching + 1 ELSE numBranching
           /\ outputStream' = outputStream \o writeSupercontigs(mergedSeqs, component.contigs, pos)
    /\ pos' = pos + 1
    /\ compIt' = compIt + 1
    /\ component' = EmptyComponent
    /\ pc' = "construct"
    /\ StagesUnchanged
    /\ UNCHANGED <<compGraph, seqIndex, numVeryBranching, numTooLarge, numSingleton>>

\* `while (it != components.end())` ends
ConstructEnd ==
    /\ pc = "construct"
    /\ AtEnd(components, compIt)
    /\ pc' = "constructed"
    /\ StagesUnchanged
    /\ UNCHANGED <<compIt, pos, component, compGraph, seqIndex, outputStream,
                   numBranching, numVeryBranching, numTooLarge, numSingleton>>

NextSupercontigs ==
    \/ GetSeqsByAlignOrder
    \/ SkipTooLarge
    \/ WriteSingleton
    \/ MergeSequencesBegin
    \/ AddSequenceToGraph
    \/ GiveUpComponent
    \/ WriteSupercontigs
    \/ ConstructEnd

SpecSupercontigs == InitSupercontigs /\ [][NextSupercontigs]_vars

(***************************************************************************)
(* bestDiagonal, one invocation at a time                                  *)
(***************************************************************************)
\* the number of q-gram hits of seq2 against seq1 on diagonal d: seq2 at i,
\* seq1 at i - d (`++counters[len1 + i - *it]`)
HitCount(seq1, seq2, q, d) ==
    Cardinality({i \in 0 .. (Len(seq2) - q) :
                    /\ i - d \in 0 .. (Len(seq1) - q)
                    /\ SubSeq(seq2, i + 1, i + q) = SubSeq(seq1, i - d + 1, i - d + q)})

\* the diagonals of the counters, i - len1 for i in [0, len1 + len2)
Diagonals(seq1, seq2) == (0 - Len(seq1)) .. (Len(seq2) - 1)

\* the loop over the counters: the first diagonal with the most hits, or the
\* sentinel when no counter is above 0
MostHits(seq1, seq2, q) ==
    LET D == {d \in Diagonals(seq1, seq2) : HitCount(seq1, seq2, q, d) > 0}
    IN  IF D = {} THEN Sentinel
        ELSE CHOOSE d \in D :
                \A e \in D :
                   \/ HitCount(seq1, seq2, q, e) < HitCount(seq1, seq2, q, d)
                   \/ HitCount(seq1, seq2, q, e) = HitCount(seq1, seq2, q, d) /\ d <= e

\* `qgramLength*2/3`
Reduced(q) == (q * 2) \div 3

\* calls bestDiagonal(seq1, seq2, qgramLength) for sequences of up to
\* MaxSeqLen bases
InitDiagonal ==
    /\ Standalone
    /\ \E s1, s2 \in SeqsUpTo(Bases, MaxSeqLen) \cup {<<"C", "C">>} :
       \E q \in 0 .. MaxQgram :
          call = [seq1 |-> s1, seq2 |-> s2, qgramLength |-> q, depth |-> 0]
    /\ ret = <<>>
    /\ pc = "bestDiagonal"

\* the recursive call of line 252, or the end of the stack
Recurse(q) ==
    IF call.depth < MaxDepth
    THEN /\ call' = [call EXCEPT !.qgramLength = q, !.depth = @ + 1]
         /\ UNCHANGED <<pc, ret>>
    ELSE pc' = "exhausted" /\ UNCHANGED <<call, ret>>

Return(value) == ret' = value /\ pc' = "return" /\ UNCHANGED call

\* one invocation of bestDiagonal.  With qgramLength 0 the index and the
\* shape are built for q-grams of no base, which the library does not define:
\* any diagonal may come out, or no hit at all.
BestDiagonal ==
    /\ pc = "bestDiagonal"
    /\ LET q == call.qgramLength
       IN  IF q > Len(call.seq1) \/ q > Len(call.seq2) THEN Return(Sentinel)
           ELSE IF q = 0
                THEN \/ \E d \in Diagonals(call.seq1, call.seq2) : Return(d)
                     \/ Recurse(Reduced(q))
                ELSE IF MostHits(call.seq1, call.seq2, q) = Sentinel
                     THEN Recurse(Reduced(q))
                     ELSE Return(MostHits(call.seq1, call.seq2, q))
    /\ StandaloneUnchanged

SpecDiagonal == InitDiagonal /\ [][BestDiagonal]_vars

(***************************************************************************)
(* averageEntropy, filterByEntropy.  Entropies are in hundredths.          *)
(***************************************************************************)
\* the dinucleotides of seq counted by the first loop: seq[i], seq[i+1] with
\* no N
Counted(seq) ==
    {i \in 1 .. (Len(seq) - 1) : seq[i] # "N" /\ seq[i + 1] # "N"}
DiCount(seq, x, y) ==
    Cardinality({i \in Counted(seq) : seq[i] = x /\ seq[i + 1] = y})

\* `p * log(p) / log(2)` for p = count / counted, times -100, for up to
\* EntropyLen - 1 dinucleotides counted
PLogP(count, counted) ==
    IF count = counted THEN 0
    ELSE IF counted = 2 THEN 50
    ELSE IF count = 1 THEN 53 ELSE 39

RECURSIVE SumOver(_, _, _)
SumOver(ds, seq, counted) ==
    IF ds = {} THEN 0
    ELSE LET d == CHOOSE e \in ds : TRUE
             n == DiCount(seq, d[1], d[2])
         IN  (IF n = 0 THEN 0 ELSE PLogP(n, counted)) + SumOver(ds \ {d}, seq, counted)

averageEntropy(seq) ==
    SumOver(Bases \X Bases, seq, Cardinality(Counted(seq))) \div 4

\* `if (entropy < options.minEntropy)`
LowEntropyMutLeq(entropy, minEntropy) == entropy <= minEntropy
LowEntropy(entropy, minEntropy) == entropy < minEntropy

\* the first loop over the map, in the order of its keys: what goes to
\* options.skippedStream, the header line and the sequence line of a contig
\* as one record
RECURSIVE SkippedLines(_, _, _)
SkippedLines(cs, keys, minEntropy) ==
    IF keys = {} THEN <<>>
    ELSE LET k == CHOOSE x \in keys : \A y \in keys : x <= y
             entropy == averageEntropy(cs[k].seq)
         IN  (IF LowEntropy(entropy, minEntropy)
              THEN <<[id |-> cs[k].id, entropy |-> entropy, seq |-> cs[k].seq]>>
              ELSE <<>>)
             \o SkippedLines(cs, keys \ {k}, minEntropy)

\* lowEntropyContigs, and the map after contigs.erase of each of them
LowEntropyContigs(cs, minEntropy) ==
    {k \in DOMAIN cs : LowEntropy(averageEntropy(cs[k].seq), minEntropy)}
ErasedKeys(cs, keys) == [k \in DOMAIN cs \ keys |-> cs[k]]

\* the contigs read from the files: of one base at least
EntropySeqs ==
    {s \in {<<"A">>, <<"A", "A", "A">>, <<"A", "T", "A">>, <<"A", "N", "T">>,
            <<"A", "A", "T", "A">>, <<"A", "A", "A", "T">>} : Len(s) <= EntropyLen}

\* calls filterByEntropy(contigs, options) on a map of up to EntropyN contigs
InitEntropy ==
    /\ Standalone
    /\ \E K \in SUBSET (0 .. (EntropyN - 1)) :
       \E seqs \in [K -> EntropySeqs] :
       \E m \in MinEntropies :
          call = [contigs |-> [k \in K |-> [id |-> <<"contig", k>>, seq |-> seqs[k]]],
                  minEntropy |-> m]
    /\ ret = <<>>
    /\ pc = "filterByEntropy"

\* filterByEntropy: ret holds the map and options.skippedStream as the call
\* leaves them, and the value returned
FilterByEntropy ==
    /\ pc = "filterByEntropy"
    /\ LET left == ErasedKeys(call.contigs, LowEntropyContigs(call.contigs, call.minEntropy))
       IN  ret' = [contigs |-> left,
                   skippedStream |-> SkippedLines(call.contigs, DOMAIN call.contigs,
                                                   call.minEntropy),
                   value |-> IF DOMAIN left = {} THEN 1 ELSE 0]
    /\ pc' = "return"
    /\ UNCHANGED call
    /\ StandaloneUnchanged

SpecEntropy == InitEntropy /\ [][FilterByEntropy]_vars

(***************************************************************************)
(* hasLowMappingQuality                                                    *)
(***************************************************************************)
Abs(x) == IF x < 0 THEN 0 - x ELSE x

\* `record.rID == record.rNextId && abs(record.beginPos - record.pNext) < 1000
\* && hasFlagRC(record) != hasFlagNextRC(record)`
OtherEndNear(record) ==
    /\ record.rID = record.rNextId
    /\ Abs(record.beginPos - record.pNext) < MateDistance
    /\ record.flagRC # record.flagNextRC

\* `if (record.rID > humanSeqs) return false;`
BeyondHumanSeqsMutGeq(record, humanSeqs) == record.rID >= humanSeqs
BeyondHumanSeqs(record, humanSeqs) == record.rID > humanSeqs

\* the loop over the cigar: the counts of its 'M' elements
RECURSIVE Matches(_)
Matches(cigar) ==
    IF cigar = <<>> THEN 0
    ELSE (IF Head(cigar).operation = "M" THEN Head(cigar).count ELSE 0)
         + Matches(Tail(cigar))

\* soft-clipped at both ends by more than 24 bases
ClippedAtBothEnds(cigar) ==
    /\ cigar[1].operation = "S"
    /\ cigar[1].count > MaxClip
    /\ cigar[Len(cigar)].operation = "S"
    /\ cigar[Len(cigar)].count > MaxClip

\* `findTagKey(idx, tagsDict, "AS")` and `score < 0.5*length(record.seq)`
LowScore(record) ==
    /\ "AS" \in DOMAIN record.tags
    /\ 2 * record.tags["AS"] < record.seqLength

hasLowMappingQuality(record, humanSeqs) ==
    IF OtherEndNear(record) THEN FALSE
    ELSE IF BeyondHumanSeqs(record, humanSeqs) THEN FALSE
    ELSE IF Matches(record.cigar) < MinMatches THEN TRUE
    ELSE IF ClippedAtBothEnds(record.cigar) THEN TRUE
    ELSE LowScore(record)

\* cigar strings around the thresholds, and the bases of the read they align
El(op, n) == [operation |-> op, count |-> n]
Cigars ==
    {<<>>,
     <<El("M", MinMatches - 1)>>,
     <<El("M", MinMatches)>>,
     <<El("S", MaxClip + 1), El("M", MinMatches), El("S", MaxClip + 1)>>,
     <<El("S", MaxClip), El("M", MinMatches), El("S", MaxClip + 1)>>,
     <<El("S", MaxClip + 1), El("M", MinMatches), El("S", MaxClip)>>,
     <<El("M", MinMatches - 25), El("I", 1), El("M", 25)>>,
     <<El("M", MinMatches - 26), El("D", 1), El("M", 25), El("S", MaxClip + 1)>>}

RECURSIVE ReadLength(_)
ReadLength(cigar) ==
    IF cigar = <<>> THEN 0
    ELSE (IF Head(cigar).operation \in {"M", "I", "S"} THEN Head(cigar).count ELSE 0)
         + ReadLength(Tail(cigar))

\* the tags of a record: no AS tag, or an AS tag of a score around half the
\* length of the read
TagsOf(len) ==
    {<<>>} \cup {[t \in {"AS"} |-> v] :
                    v \in {0, len \div 2, (len + 1) \div 2, ((len + 1) \div 2) - 1, len}}

\* calls hasLowMappingQuality(record, humanSeqs) on the record of a mapped read
InitQuality ==
    /\ Standalone
    /\ \E rID, rNextId \in 0 .. MaxRef :
       \E d \in {0 - MateDistance, 1 - MateDistance, 0, MateDistance - 1, MateDistance} :
       \E rcFlag, nextRcFlag \in BOOLEAN :
       \E cigar \in Cigars :
       \E tags \in TagsOf(IF cigar = <<>> THEN 2 * MinMatches ELSE ReadLength(cigar)) :
       \E humanSeqs \in 0 .. (MaxRef - 1) :
          call = [record |-> [rID |-> rID, rNextId |-> rNextId,
                              beginPos |-> 2 * MateDistance,
                              pNext |-> 2 * MateDistance + d,
                              flagRC |-> rcFlag, flagNextRC |-> nextRcFlag,
                              cigar |-> cigar, tags |-> tags,
                              seqLength |-> IF cigar = <<>> THEN 2 * MinMatches
                                            ELSE ReadLength(cigar)],
                  humanSeqs |-> humanSeqs]
    /\ ret = <<>>
    /\ pc = "hasLowMappingQuality"

HasLowMappingQuality ==
    /\ pc = "hasLowMappingQuality"
    /\ ret' = hasLowMappingQuality(call.record, call.humanSeqs)
    /\ pc' = "return"
    /\ UNCHANGED call
    /\ StandaloneUnchanged

SpecQuality == InitQuality /\ [][HasLowMappingQuality]_vars

(***************************************************************************)
(* writeFastq.  Read names are numbers, in the order of the maps' keys.    *)
(***************************************************************************)
\* `firstIt->first < secondIt->first`
NameBeforeMutLeq(x, y) == x <= y
NameBefore(x, y) == x < y

\* writeRecord(stream, name, seq, qual)
FastqRecord(name, read) == [name |-> name, seq |-> read.i1, qual |-> read.i2]

\* the three loops of writeFastq from the iterators firstIt and secondIt (the
\* keys still ahead of them) on: what is appended to the three streams
RECURSIVE WriteLoops(_, _, _, _, _)
WriteLoops(firstReads, secondReads, firstIt, secondIt, out) ==
    IF firstIt # <<>> /\ secondIt # <<>>
    THEN LET x == Head(firstIt)
             y == Head(secondIt)
         IN  IF NameBefore(x, y)
             THEN WriteLoops(firstReads, secondReads, Tail(firstIt), secondIt,
                             [out EXCEPT !.single = Append(@, FastqRecord(x, firstReads[x]))])
             ELSE IF x = y
                  THEN WriteLoops(firstReads, secondReads, Tail(firstIt), Tail(secondIt),
                                  [out EXCEPT !.first = Append(@, FastqRecord(x, firstReads[x])),
                                              !.second = Append(@, FastqRecord(y, secondReads[y]))])
                  ELSE WriteLoops(firstReads, secondReads, firstIt, Tail(secondIt),
                                  [out EXCEPT !.single = Append(@, FastqRecord(y, secondReads[y]))])
    ELSE IF firstIt # <<>>
         THEN WriteLoops(firstReads, secondReads, Tail(firstIt), secondIt,
                         [out EXCEPT !.single = Append(@, FastqRecord(Head(firstIt),
                                                                     firstReads[Head(firstIt)]))])
         ELSE IF secondIt # <<>>
              THEN WriteLoops(firstReads, secondReads, firstIt, Tail(secondIt),
                              [out EXCEPT !.single = Append(@, FastqRecord(Head(secondIt),
                                                                          secondReads[Head(secondIt)]))])
              ELSE out

\* the three files, with nothing written to them
NoRecords == [first |-> <<>>, second |-> <<>>, single |-> <<>>]

\* writeFastq: 1 when one of the three streams is not good, else the records
\* of the loops and 0
writeFastq(firstReads, secondReads, isGood) ==
    IF ~isGood[1] \/ ~isGood[2] \/ ~isGood[3]
    THEN [value |-> 1, files |-> NoRecords]
    ELSE [value |-> 0,
          files |-> WriteLoops(firstReads, secondReads, SortedKeys(DOMAIN firstReads),
                               SortedKeys(DOMAIN secondReads), NoRecords)]

\* the maps appendFastqRecord fills: a sequence and its qualities under the
\* name of the read
ReadMaps(tag) ==
    UNION {[K -> {[i1 |-> <<b>>, i2 |-> <<tag>>] : b \in Bases}] :
              K \in SUBSET (1 .. ReadNames)}

\* calls writeFastq on two maps of up to ReadNames reads each; the three
\* files can be opened or one of them cannot
InitFastq ==
    /\ Standalone
    /\ \E firstReads \in ReadMaps("1") :
       \E secondReads \in ReadMaps("2") :
       \E bad \in 0 .. 3 :
          call = [firstReads |-> firstReads, secondReads |-> secondReads,
                  isGood |-> [i \in 1 .. 3 |-> i # bad]]
    /\ ret = <<>>
    /\ pc = "writeFastq"

WriteFastq ==
    /\ pc = "writeFastq"
    /\ ret' = writeFastq(call.firstReads, call.secondReads, call.isGood)
    /\ pc' = "return"
    /\ UNCHANGED call
    /\ StandaloneUnchanged

SpecFastq == InitFastq /\ [][WriteFastq]_vars

(***************************************************************************)
(* Properties                                                              *)
(***************************************************************************)
N == contigsInTotal
rc(i) == globalIndexRC(i, N)

\* two UnionFinds over the same ids hold the same sets
SamePartition(u, v) ==
    LET ru == [i \in DOMAIN u |-> findSet(u, i)]
        rv == [i \in DOMAIN v |-> findSet(v, i)]
    IN  /\ DOMAIN u = DOMAIN v
        /\ \A i, j \in DOMAIN u : (ru[i] = ru[j]) <=> (rv[i] = rv[j])

\* the sets of u are mapped onto sets of u by the twin map, sizes included
TwinClosed(u) ==
    LET r == [i \in DOMAIN u |-> findSet(u, i)] IN
    /\ \A i, j \in DOMAIN u : (r[i] = r[j]) <=> (r[rc(i)] = r[rc(j)])
    /\ \A i \in DOMAIN u : u[r[i]] = u[r[rc(i)]]
    /\ \A i \in DOMAIN u : -u[r[i]] = Cardinality({j \in DOMAIN u : r[j] = r[i]})

\* C1: after every pass of partitionContigs' and readAlignedPairs' loops (so
\* after each of them returns) the sets of the Union-Find are closed under the
\* twin map rc: a, b share a set iff rc(a), rc(b) do, and the size stored at
\* find(i) is the size stored at find(rc(i)) (and is the size of the set).
C1_TwinClosedPartition == TwinClosed(uf) /\ TwinClosed(mUf)

\* a pair file mixing forward and reverse ids has been read and joined
C1_Witness ==
    /\ pc = "done"
    /\ \E p \in mPairs : p[1] < N /\ p[2] >= N /\ p[2] # rc(p[1])
    /\ \E p \in mPairs : findSet(mUf, p[1]) # findSet(mUf, rc(p[1]))

TwinPair(p) == <<rc(p[1]), rc(p[2])>>

\* C3 as stated: the pair set holds the twin of each of its pairs.
C3_PairSetTwinClosed ==
    /\ \A p \in alignedPairs : TwinPair(p) \in alignedPairs
    /\ \A p \in mPairs : TwinPair(p) \in mPairs

\* C3, amended: for a pair (a, b) of the pair set, rc(a) and rc(b) are in one
\* set of the Union-Find; partitionContigs records forward pairs only, so the
\* twin pair is not in its set; unionFindToComponents stores the pair and its
\* twin under one component key.
C3_TwinJoinedNotRecorded ==
    /\ \A p \in alignedPairs :
          /\ findSet(uf, rc(p[1])) = findSet(uf, rc(p[2]))
          /\ p[1] < N /\ p[2] < N
          /\ TwinPair(p) \notin alignedPairs
    /\ \A p \in mPairs : findSet(mUf, rc(p[1])) = findSet(mUf, rc(p[2]))
    /\ pc \in {"singletons", "done"} =>
          \A p \in mPairs : \E k \in DOMAIN components :
              {p, TwinPair(p)} \subseteq components[k]

\* pairs recorded by partitionContigs, written, read back and assembled
C3_Witness ==
    /\ pc = "done"
    /\ alignedPairs # {}
    /\ mPairs = alignedPairs
    /\ \E p \in mPairs : TwinPair(p) \notin mPairs

\* C6 as stated: every recorded pair has its query in [offset, offset+width).
C6_QueryInBatchRange ==
    \A p \in alignedPairs : offset <= p[1] /\ p[1] < offset + width

\* C6, amended: every recorded pair (a, b) has 0 <= a < offset+width and a a
\* key of the contigs map; a contig below offset that is in the map is used as
\* a query too.
C6_QueryBelowLimit ==
    \A p \in alignedPairs :
        0 <= p[1] /\ p[1] < offset + width /\ p[1] \in contigs

\* a pair recorded for a query below the batch's offset
C6_Witness ==
    /\ pc = "partitioned"
    /\ \E p \in alignedPairs : p[1] < offset
    /\ offset + width < N

\* the orders of the sequence fs
Reorderings(fs) == OrdersOf(fs)

AllRead == pc = "open" /\ f > Len(files)

\* C8: the sets of ids readAndMergeComponents ends up with are the same for
\* every order of the pair files.
C8_FileOrderIrrelevant ==
    AllRead =>
        \A fs \in Reorderings(files) :
            SamePartition(ReadFiles(resizeUF(N), {}, fs, N).uf, mUf)

\* two different files, each of which joined something
C8_Witness ==
    /\ AllRead
    /\ Len(files) = 2
    /\ files[1] # files[2]
    /\ readAlignedPairs(resizeUF(N), {}, files[1], N).pairs # {}
    /\ \E p \in mPairs : p \notin readAlignedPairs(resizeUF(N), {}, files[1], N).pairs
    /\ readAlignedPairs(resizeUF(N), {}, files[2], N).pairs # mPairs

Roots(u) == [i \in DOMAIN u |-> findSet(u, i)]
Sizes(u) == [i \in DOMAIN u |-> SizeAt(u, i)]

\* a pass of the reader's loop over a line whose ids share a set
RedundantLineRead ==
    /\ pc = "lines"
    /\ ReadPair(stream).ok
    /\ findSet(mUf, ReadPair(stream).key) = findSet(mUf, ReadPair(stream).val)
    /\ stream' # stream

\* C9: a line whose ids are already in one set leaves the pair set, every
\* id's representative and every set's size as they were; reading all the
\* files a second time changes none of these, and the components assembled
\* after reading the files twice are the ones assembled after reading them once.
C9_RereadChangesNothing ==
    /\ [][RedundantLineRead =>
            /\ mPairs' = mPairs
            /\ Roots(mUf') = Roots(mUf)
            /\ Sizes(mUf') = Sizes(mUf)]_vars
    /\ [](AllRead =>
            LET r == ReadFiles(mUf, mPairs, files, N) IN
            /\ r.pairs = mPairs
            /\ Roots(r.uf) = Roots(mUf)
            /\ Sizes(r.uf) = Sizes(mUf)
            /\ Assemble(r.uf, r.pairs, N) = Assemble(mUf, mPairs, N))

\* files with a joining line and a redundant line of two different ids
C9_Witness ==
    /\ pc = "done"
    /\ mPairs # {}
    /\ \E i \in 1 .. Len(files) :
          LET r == ReadPair(files[i]) IN
          r.ok /\ r.key # r.val /\ <<r.key, r.val>> \notin mPairs

\* the keys unionFindToComponents creates from the aligned pairs
PairKeys == DOMAIN unionFindToComponents(mUf, mPairs, N).components

\* C10 as stated: every representative i of [0, 2N) without a component from
\* aligned pairs is a key with empty alignedPairs.
C10_SingletonsAllIds ==
    pc = "done" =>
        \A i \in Ids(N) :
            (findSet(mUf, i) = i /\ i \notin PairKeys) =>
                (i \in DOMAIN components /\ components[i] = {})

\* C10, amended: that holds of every i of [0, N) (addSingletons is called with
\* totalContigs = contigsInTotal), and no id of [N, 2N) becomes a key with
\* empty alignedPairs.
C10_SingletonsForwardIds ==
    pc = "done" =>
        /\ \A i \in 0 .. (N - 1) :
              (findSet(mUf, i) = i /\ i \notin PairKeys) =>
                  (i \in DOMAIN components /\ components[i] = {})
        /\ \A k \in DOMAIN components : components[k] = {} => k < N

\* a forward singleton beside a component built from pairs
C10_Witness ==
    /\ pc = "done"
    /\ PairKeys # {}
    /\ \E i \in 0 .. (N - 1) : i \in DOMAIN components /\ components[i] = {}

\* the Union-Find partitionContigs ends with when it goes on from here, with
\* the finder emitting hs for the query a at hand
RestWith(hs) ==
    PartitionRun(uf, alignedPairs, N, a, [hits EXCEPT ![a] = hs], TRUE).uf

\* partitionContigs is about to open the finder of a query with several hits
AtQueryWithManyHits ==
    /\ pc = "partition"
    /\ a < offset + width /\ a \in contigs
    /\ h = 1 /\ Len(hits[a]) > 1

\* C4 as stated: the sets partitionContigs produces are the same for every
\* order in which the finder emits the hits of a query contig.
C4_HitOrderIrrelevant ==
    AtQueryWithManyHits =>
        \A o \in OrdersOf(hits[a]) : SamePartition(RestWith(o), RestWith(hits[a]))

\* no set holds more than 100 ids: the cut-off changed nothing
NoLargeSet(u) == \A i \in DOMAIN u : SizeAt(u, i) <= CutOff

\* C4, amended: the sets are the same for every order of a query's hits
\* provided no set of the partition produced holds more than 100 ids; when the
\* cut-off fires, the hits left out depend on the order.
C4_HitOrderIrrelevantBelowCutOff ==
    (AtQueryWithManyHits /\ NoLargeSet(RestWith(hits[a]))) =>
        \A o \in OrdersOf(hits[a]) : SamePartition(RestWith(o), RestWith(hits[a]))

\* a set of exactly 100 ids built by a query with two verified hits
C4_Witness ==
    /\ pc = "partitioned"
    /\ NoLargeSet(uf)
    /\ \E x \in contigs :
          /\ Len(hits[x]) = 2
          /\ SizeAt(uf, x) = CutOff
          /\ <<x, hits[x][1].b>> \in alignedPairs
          /\ <<x, hits[x][2].b>> \in alignedPairs

\* C5 as stated: the partition with the cut-off is the partition without it.
C5_CutOffKeepsPartition ==
    pc = "partitioned" => SamePartition(ufAll, uf)

\* every set of u lies within a set of v
Refines(u, v) ==
    LET ru == [i \in DOMAIN u |-> findSet(u, i)]
        rv == [i \in DOMAIN v |-> findSet(v, i)]
    IN  \A i, j \in DOMAIN u : (ru[i] = ru[j]) => (rv[i] = rv[j])

\* C5, amended: every set produced with the cut-off lies within a set produced
\* without it, and the two partitions are equal when no set holds more than
\* 100 ids; a `break` may leave out a hit that no later query makes up for.
C5_CutOffRefinesPartition ==
    pc = "partitioned" =>
        /\ Refines(uf, ufAll)
        /\ NoLargeSet(uf) => SamePartition(ufAll, uf)

\* the cut-off fired and left out a verified hit, which a later query made up for
C5_Witness ==
    /\ pc = "partitioned"
    /\ ~NoLargeSet(uf)
    /\ SamePartition(ufAll, uf)
    /\ \E x \in contigs : \E k \in 1 .. Len(hits[x]) :
          /\ hits[x][k].score > MinScore
          /\ <<x, hits[x][k].b>> \notin alignedPairs
          /\ findSet(uf, x) = findSet(uf, hits[x][k].b)

\* components as unionFindToComponents and addSingletons build them from
\* partitionContigs' own pair set and Union-Find
InMemory == Assemble(uf, alignedPairs, N)

\* k and j are keys of one component: of one set or of twin sets
SameComponent(u, k, j) ==
    findSet(u, k) \in {findSet(u, j), findSet(u, rc(j))}

\* C7 as stated: the components read back from the written pair file are the
\* in-memory components, key by key.
C7_RoundTripSameMapping ==
    pc = "done" => components = InMemory

\* C7, amended: the pair set read back is the pair set written, the sets of
\* ids are the same, and the two mappings hold the same components with the
\* same alignedPairs; the key of a component (a representative chosen by the
\* order of the joins) may differ.
C7_RoundTripSameComponents ==
    pc = "done" =>
        /\ mPairs = alignedPairs
        /\ SamePartition(mUf, uf)
        /\ Cardinality(DOMAIN components) = Cardinality(DOMAIN InMemory)
        /\ \A k \in DOMAIN components : \E j \in DOMAIN InMemory :
              SameComponent(uf, k, j) /\ components[k] = InMemory[j]
        /\ \A j \in DOMAIN InMemory : \E k \in DOMAIN components :
              SameComponent(uf, k, j) /\ components[k] = InMemory[j]

\* three pairs written in another order than they were joined in
C7_Witness ==
    /\ pc = "done"
    /\ Cardinality(alignedPairs) = 3
    /\ \E x \in contigs :
          Len(hits[x]) = 2 /\ hits[x][2].b < hits[x][1].b
          /\ <<x, hits[x][1].b>> \in alignedPairs
          /\ <<x, hits[x][2].b>> \in alignedPairs
    /\ \E k \in DOMAIN components : Cardinality(components[k]) = 12

\* the keys of the components map that hold the pair p
KeysHolding(p) == {k \in DOMAIN components : p \in components[k]}

\* k is the representative of the set of x or of its twin set
KeyOfId(k, x) == k \in {findSet(mUf, x), findSet(mUf, rc(x))}

\* C11: after unionFindToComponents every input pair (a, b) is stored under
\* exactly one key, the smaller of find(a) and find(rc(a)); with a stored pair
\* (x, y) a component stores (y, x), (rc(x), rc(y)) and (rc(y), rc(x)); and
\* both ids of a stored pair are in the set of the key or in its twin set.
C11_PairsUnderCanonicalKey ==
    pc \in {"singletons", "done"} =>
        /\ \A p \in mPairs :
              LET fa == findSet(mUf, p[1])
                  fr == findSet(mUf, rc(p[1]))
              IN  KeysHolding(p) = {IF fa < fr THEN fa ELSE fr}
        /\ \A k \in DOMAIN components : \A p \in components[k] :
              /\ {<<p[2], p[1]>>, TwinPair(p), <<rc(p[2]), rc(p[1])>>} \subseteq components[k]
              /\ KeyOfId(k, p[1]) /\ KeyOfId(k, p[2])

\* a pair of reverse ids stored, with the three pairs that go with it, under
\* the representative of the twin set of its first id
C11_Witness ==
    /\ pc = "singletons"
    /\ \E p \in mPairs :
          /\ findSet(mUf, rc(p[1])) < findSet(mUf, p[1])
          /\ KeysHolding(p) = {findSet(mUf, rc(p[1]))}
          /\ Cardinality(components[findSet(mUf, rc(p[1]))]) = 4

\* the position of key k in the sorted order of the keys of c
Rank(c, k) == Cardinality({j \in DOMAIN c : j < k})

\* the components whose rank is congruent to w modulo T
OfRank(c, T, w) == [k \in {j \in DOMAIN c : Rank(c, j) % T = w} |-> c[k]]

\* C12: with totalBatches T > 1, readAndMergeComponents as batch w keeps
\* exactly the components whose 0-based rank in key order is congruent to w
\* modulo T, each with its alignedPairs; so of the batches 0 .. T-1 exactly one
\* keeps a given component.
C12_ShardKeepsOwnRanks ==
    /\ [][(pc = "done" /\ pc' = "returned" /\ totalBatches > 1) =>
            components' = OfRank(components, totalBatches, batchNumber)]_vars
    /\ [](pc = "done" =>
            \A T \in 2 .. MaxBatches : \A k \in DOMAIN components :
                Cardinality({w \in 0 .. (T - 1) :
                                k \in DOMAIN KeepBatch(components, T, w)}) = 1)

\* batch 1 of 2 has kept the second of three components and erased the others
C12_Witness ==
    /\ pc = "returned"
    /\ totalBatches = 2 /\ batchNumber = 1
    /\ Cardinality(DOMAIN Assemble(mUf, mPairs, N)) = 3
    /\ Cardinality(DOMAIN components) = 1
    /\ \E k \in DOMAIN components : components[k] # {}

(***************************************************************************)
(* The ComponentGraph between grafts                                       *)
(***************************************************************************)
Vertices(g) == DOMAIN g.sequenceMap
Targets(g, v) == {g.graph[v][k] : k \in 1 .. Len(g.graph[v])}
SourcesOf(g) == {g.sources[k] : k \in 1 .. Len(g.sources)}

\* the vertices reached from the vertices S over at least one edge, in at
\* most n rounds
RECURSIVE ReachedFrom(_, _, _)
ReachedFrom(g, S, n) ==
    LET T == S \cup UNION {Targets(g, v) : v \in S}
    IN  IF n = 0 \/ T = S THEN S ELSE ReachedFrom(g, T, n - 1)

OnCycle(g, v) == v \in ReachedFrom(g, Targets(g, v), numVertices(g))

Acyclic(g) == \A v \in Vertices(g) : ~OnCycle(g, v)

\* a graph is at hand and no graft is under way
GraphAtHand == pc = "graft"

\* the vertices on the walks of the enumerated paths
OnSomePath(g) ==
    LET paths == enumeratePaths(g)
    IN  UNION {{paths[k].walk[i] : i \in 1 .. Len(paths[k].walk)} : k \in 1 .. Len(paths)}

\* C13: after construction and after every graft the ComponentGraph has no
\* cycle (so the recursion of enumeratePaths ends), every enumerated walk
\* goes from a source along edges to a vertex without out-edges, and every
\* vertex lies on an enumerated walk.
C13_AcyclicAndCovered ==
    GraphAtHand =>
        /\ Acyclic(compGraph)
        /\ OnSomePath(compGraph) = Vertices(compGraph)
        /\ LET paths == enumeratePaths(compGraph)
           IN  \A k \in 1 .. Len(paths) :
                  LET w == paths[k].walk
                  IN  /\ w[1] \in SourcesOf(compGraph)
                      /\ compGraph.graph[w[Len(w)]] = <<>>
                      /\ \A i \in 1 .. (Len(w) - 1) : w[i + 1] \in Targets(compGraph, w[i])

\* three contigs are grafted, a vertex with out-edges was split, and the
\* graph has several sources and branches
C13_Witness ==
    /\ GraphAtHand
    /\ seqIndex = 3
    /\ Len(compGraph.sources) >= 2
    /\ numVertices(compGraph) >= 6
    /\ \E v \in Vertices(compGraph) : Len(compGraph.graph[v]) >= 2
    /\ Len(enumeratePaths(compGraph)) >= 4

HasInEdge(g, v) == \E u \in Vertices(g) : v \in Targets(g, u)

\* C14: after any sequence of grafts no vertex listed in sources has an
\* incoming edge.  The code does not keep this: the left end reads the label
\* length of u after the right end has changed it (line 318), takes u for
\* unsplittable and hangs the new source in front of the source u.
C14_SourcesHaveNoInEdge ==
    GraphAtHand => \A v \in SourcesOf(compGraph) : ~HasInEdge(compGraph, v)

\* the sum of the label lengths of the first i vertices of the walk w
RECURSIVE LabelsUpTo(_, _, _)
LabelsUpTo(g, w, i) ==
    IF i = 0 THEN 0 ELSE LabelsUpTo(g, w, i - 1) + Len(g.sequenceMap[w[i]])

\* C15: for every path enumeratePaths returns, positionMap has exactly one
\* entry per vertex of the walk, the key of a vertex is the sum of the label
\* lengths up to and including it, the keys increase strictly along the
\* walk, and the largest key is the length of the path's sequence.  The code
\* does not keep this: a vertex with an empty label that is not the first of
\* its walk gets the key of its predecessor and replaces it in the map.
C15_PositionMapKeys ==
    GraphAtHand =>
        LET paths == enumeratePaths(compGraph)
        IN  \A k \in 1 .. Len(paths) :
               LET w == paths[k].walk
                   m == paths[k].positionMap
                   key(i) == LabelsUpTo(compGraph, w, i)
               IN  /\ Cardinality(DOMAIN m) = Len(w)
                   /\ \A i \in 1 .. Len(w) : key(i) \in DOMAIN m /\ m[key(i)] = w[i]
                   /\ \A i \in 1 .. (Len(w) - 1) : key(i) < key(i + 1)
                   /\ key(Len(w)) = Len(paths[k].seq)
                   /\ \A x \in DOMAIN m : x <= Len(paths[k].seq)

\* C16: after construction and after every graft every vertex label is not
\* empty.  The code does not keep this: for an alignment that ends at path
\* offset 0 the right end splits the first vertex at position 0 and leaves
\* it with an empty label.
C16_LabelsNotEmpty ==
    GraphAtHand => \A v \in Vertices(compGraph) : compGraph.sequenceMap[v] # <<>>

(***************************************************************************)
(* Components with many paths                                              *)
(***************************************************************************)
\* a contig of the component at hand is still to be grafted
GraftAhead == pc = "graft" /\ seqIndex < Len(component.contigs)

NumPaths == Len(enumeratePaths(compGraph))

\* the positions of the components that have records in the output
Supercontigs == {k \in 1 .. Len(outputStream) : "pos" \in DOMAIN outputStream[k]}
PosWritten == {outputStream[k].pos : k \in Supercontigs}

\* C17: when more than 30 paths are enumerated before a contig is grafted,
\* the component is given up: nothing is written for it, it is counted as
\* branching and as given up, and the loop goes on with the next component;
\* at the end every component has been visited and every component that was
\* neither skipped nor given up has records.
C17_GivenUpAbove30Paths ==
    /\ [][(GraftAhead /\ NumPaths > MaxPaths) =>
            /\ pc' = "construct"
            /\ outputStream' = outputStream
            /\ numBranching' = numBranching + 1
            /\ numVeryBranching' = numVeryBranching + 1
            /\ compIt' = compIt + 1 /\ pos' = pos + 1]_vars
    /\ [](pc = "constructed" =>
            /\ compIt = Cardinality(DOMAIN components) + 1
            /\ numTooLarge + numSingleton + pos = Cardinality(DOMAIN components)
            /\ PosWritten \subseteq 0 .. (pos - 1)
            /\ Cardinality(PosWritten) = pos - numVeryBranching)

\* the first of two components was given up, the second one has its
\* supercontig
C17_Witness ==
    /\ pc = "constructed"
    /\ NumPaths = 1
    /\ numVeryBranching = 1 /\ numBranching = 1 /\ numTooLarge = 0
    /\ Cardinality(DOMAIN components) = 2
    /\ Len(outputStream) = 1
    /\ outputStream[1].pos = 1 /\ outputStream[1].seq = <<"A", "A", "T">>

\* the records written for the component at position p
RecordsAt(p) == {k \in Supercontigs : outputStream[k].pos = p}

\* C18: a component whose graph has more than 30 paths after all its contigs
\* are grafted gets no output, so that no component has more than 30
\* supercontigs.  The code does not keep this: the paths are counted before
\* each graft only, and the final paths are all written.
C18_NeverMoreThan30Supercontigs ==
    \A p \in PosWritten : Cardinality(RecordsAt(p)) <= MaxPaths

(***************************************************************************)
(* The tags of the supercontigs                                            *)
(***************************************************************************)
\* the first record of the component at position p
FirstAt(p) == CHOOSE k \in RecordsAt(p) : \A j \in RecordsAt(p) : k <= j

OneLetter(i) == <<Letters[i + 1]>>
TwoLetters(i) == <<Letters[(i \div 26) + 1], Letters[(i % 26) + 1]>>

\* the records of every component are tagged one-letter up to `most` paths
\* and two-letter above, and no two records of a component share a tag
TaggedUpTo(most) ==
    \A p \in PosWritten :
       LET n == Cardinality(RecordsAt(p))
           first == FirstAt(p)
       IN  /\ RecordsAt(p) = first .. (first + n - 1)
           /\ \A i \in 0 .. (n - 1) :
                 outputStream[first + i].tag = IF n <= most THEN OneLetter(i) ELSE TwoLetters(i)
           /\ \A i, j \in 0 .. (n - 1) :
                 outputStream[first + i].tag = outputStream[first + j].tag => i = j

\* C19 as stated: the i-th path of a component has the single letter 'a'+i
\* when the component has at most 26 paths, else a two-letter base-26 tag;
\* the tags of a component are pairwise distinct.
C19_SingleLetterUpTo26 == TaggedUpTo(26)

\* C19, amended: the i-th path of a component has the single letter 'a'+i
\* when the component has at most 25 paths, else the two letters 'a'+i/26
\* and 'a'+i%26; the tags of a component are pairwise distinct.
C19_SingleLetterUpTo25 == TaggedUpTo(25)

\* a component of 26 paths is written with the tags aa .. az
C19_Witness ==
    /\ pc = "constructed"
    /\ Cardinality(RecordsAt(0)) = 26
    /\ outputStream[1].tag = <<"a", "a">>
    /\ outputStream[26].tag = <<"a", "z">>

(***************************************************************************)
(* The order of the contigs of a component                                 *)
(***************************************************************************)
\* the ids reached from the ids S through the pairs P
RECURSIVE ReachedThrough(_, _)
ReachedThrough(P, S) ==
    LET T == S \cup {p[2] : p \in {q \in P : q[1] \in S}}
    IN  IF T = S THEN S ELSE ReachedThrough(P, T)

\* C20: the order getSeqsByAlignOrder yields has no duplicates, starts at the
\* smaller id of the first pair, every contig after the first is paired with
\* a contig earlier in the order, and an id is in the order exactly if it is
\* reached from the first id through the aligned pairs; the contigs are the
\* sequences of the ids in this order.
C20_AlignOrder ==
    (pc = "ordered" /\ component.alignedPairs # {}) =>
        LET P == component.alignedPairs
            order == component.ids
            first == CHOOSE x \in {p[1] : p \in P} : \A p \in P : x <= p[1] /\ x <= p[2]
        IN  /\ P = ComponentAt(components, compIt)
            /\ \A j, k \in 1 .. Len(order) : order[j] = order[k] => j = k
            /\ order[1] = first
            /\ \A k \in 2 .. Len(order) : \E j \in 1 .. (k - 1) : <<order[j], order[k]>> \in P
            /\ {order[k] : k \in 1 .. Len(order)} = ReachedThrough(P, {first})
            /\ Len(component.contigs) = Len(order)
            /\ \A k \in 1 .. Len(order) : component.contigs[k] = contigSeqs[order[k]]

\* the order 0, 2, 1 of a chain whose middle contig has the largest id; the
\* ids of the other strand are not reached
C20_Witness ==
    /\ pc = "ordered"
    /\ component.ids = <<0, 2, 1>>
    /\ \E p \in component.alignedPairs : p[1] = 3
    /\ component.contigs[2] # component.contigs[3]

(***************************************************************************)
(* Singleton components                                                    *)
(***************************************************************************)
\* the key the iterator of constructSupercontigs points at
KeyAt == SortedKeys(DOMAIN components)[compIt]

\* the records of single contigs
Singletons == {k \in 1 .. Len(outputStream) : "id" \in DOMAIN outputStream[k]}

\* C21: for a component without aligned pairs the order is well defined and
\* is the component's own id; one record is written for it, with that id and
\* the contig's sequence, and it is counted as a singleton.  The code does
\* not keep this: getSeqsByAlignOrder reads the start id through begin() of
\* the empty set of pairs.
C21_SingletonVerbatim ==
    /\ pc # "aborted"
    /\ (pc = "ordered" /\ component.alignedPairs = {}) =>
          /\ component.ids = <<KeyAt>>
          /\ component.contigs = <<contigSeqs[KeyAt]>>
    /\ Cardinality(Singletons) = numSingleton
    /\ \A k \in Singletons :
          /\ outputStream[k].id \in DOMAIN components
          /\ components[outputStream[k].id] = {}
          /\ outputStream[k].seq = contigSeqs[outputStream[k].id]
    /\ \A j, k \in Singletons : outputStream[j].id = outputStream[k].id => j = k

(***************************************************************************)
(* mergeSeqWithGraph, one end at a time                                    *)
(***************************************************************************)
\* the contig to graft next and the path it is aligned to
NextSeq == component.contigs[seqIndex + 1]
BestPath == LET paths == enumeratePaths(compGraph) IN paths[BestPathIndex(paths, NextSeq)]

\* g1 is g with one more vertex, labelled label
OneMoreVertex(g, g1, label) ==
    /\ numVertices(g1) > numVertices(g)
    /\ g1.sequenceMap[numVertices(g1) - 1] = label

\* C22: when the alignment ends inside the path, the unaligned tail of the
\* new sequence becomes a new vertex if it is longer than minBranchLen and
\* leaves the graph as it is if it has minBranchLen bases or fewer; when the
\* alignment begins after offset 0 of the path, the same holds for the
\* unaligned head (a negative minBranchLen never branches).
C22_BranchOnlyAboveMinBranchLen ==
    GraftAhead =>
        \A al \in Alignments(NextSeq, BestPath.seq) :
           LET tail == SubSeq(NextSeq, al.alignEndSeq + 1, Len(NextSeq))
               head == SubSeq(NextSeq, 1, al.alignBeginSeq)
               g1 == RightEnd(compGraph, BestPath, NextSeq, al, minTipScore)
               g2 == LeftEnd(g1, BestPath, NextSeq, al, minTipScore)
           IN  /\ (tail # <<>> /\ al.alignEndPath < Len(BestPath.seq)) =>
                     IF minTipScore >= 0 /\ Len(tail) > minTipScore
                     THEN OneMoreVertex(compGraph, g1, tail)
                     ELSE g1 = compGraph
               /\ (head # <<>> /\ al.alignBeginPath > 0) =>
                     IF minTipScore >= 0 /\ Len(head) > minTipScore
                     THEN OneMoreVertex(g1, g2, head)
                          /\ g2.sources = Append(g1.sources, numVertices(g2) - 1)
                     ELSE g2 = g1

\* TA was grafted onto ATT along the first T with minBranchLen 1: its tail of
\* one base was dropped
C22_Witness ==
    /\ pc = "graft" /\ seqIndex = 2
    /\ minTipScore = 1
    /\ component.contigs = <<<<"A", "T", "T">>, <<"T", "A">>>>
    /\ compGraph = NewComponentGraph(<<"A", "T", "T">>)

(***************************************************************************)
(* splitVertex                                                             *)
(***************************************************************************)
\* how often each sequence is among the sequences of the paths
SeqBag(paths) ==
    [x \in {paths[k].seq : k \in 1 .. Len(paths)} |->
        Cardinality({k \in 1 .. Len(paths) : paths[k].seq = x})]

\* how often each vertex is a target of the out-edges of u
TargetBag(g, u) ==
    [x \in Targets(g, u) |-> Cardinality({k \in 1 .. Len(g.graph[u]) : g.graph[u][k] = x})]

\* C23: splitVertex(u, uSeq, vSeq) with uSeq + vSeq the label of u gives the
\* new vertex v the former out-edges of u and the label vSeq, leaves u with
\* the label uSeq and the one out-edge u -> v, leaves every other vertex, the
\* in-edges of u and the sources as they are, and leaves the multiset of the
\* sequences of the enumerated paths as it is.
C23_SplitVertexFrame ==
    GraphAtHand =>
        \A u \in Vertices(compGraph) :
        \A k \in 0 .. Len(compGraph.sequenceMap[u]) :
           LET label == compGraph.sequenceMap[u]
               v == numVertices(compGraph)
               g == splitVertex(compGraph, u, SubSeq(label, 1, k), SubSeq(label, k + 1, Len(label)))
           IN  /\ Vertices(g) = Vertices(compGraph) \cup {v}
               /\ TargetBag(g, v) = TargetBag(compGraph, u)
               /\ g.graph[u] = <<v>>
               /\ g.sequenceMap[u] \o g.sequenceMap[v] = label
               /\ Len(g.sequenceMap[u]) = k
               /\ \A w \in Vertices(compGraph) \ {u} :
                     g.graph[w] = compGraph.graph[w] /\ g.sequenceMap[w] = compGraph.sequenceMap[w]
               /\ g.sources = compGraph.sources
               /\ SeqBag(enumeratePaths(g)) = SeqBag(enumeratePaths(compGraph))

\* a graft has split a vertex that had two out-edges and an in-edge: vertex u
\* leads to v only, and v has the out-edges
C23_Witness ==
    /\ GraphAtHand
    /\ \E u \in Vertices(compGraph) :
          /\ Len(compGraph.graph[u]) = 1
          /\ compGraph.graph[u][1] > u
          /\ Len(compGraph.graph[compGraph.graph[u][1]]) >= 2
          /\ HasInEdge(compGraph, u)

(***************************************************************************)
(* Alignments over the whole new sequence                                  *)
(***************************************************************************)
\* the contigs of the component at hand are the same sequence
IdenticalContigs ==
    \A k \in 1 .. Len(component.contigs) : component.contigs[k] = component.contigs[1]

\* C24: grafting a sequence whose alignment covers all of it leaves the
\* vertices, edges, labels and sources of the graph as they are; a component
\* of identical contigs keeps the one-vertex graph of its first contig and is
\* written as the one supercontig equal to that contig.
C24_FullCoverLeavesGraph ==
    /\ [](GraftAhead =>
            \A al \in Alignments(NextSeq, BestPath.seq) :
               (al.alignBeginSeq = 0 /\ al.alignEndSeq = Len(NextSeq)) =>
                  mergeSeqWithGraph(compGraph, BestPath, NextSeq, al, minTipScore) = compGraph)
    /\ []((GraphAtHand /\ IdenticalContigs) =>
            compGraph = NewComponentGraph(component.contigs[1]))
    /\ [][(GraphAtHand /\ IdenticalContigs /\ pc' = "construct") =>
            /\ Len(outputStream') = Len(outputStream) + 1
            /\ outputStream'[Len(outputStream')].seq = component.contigs[1]
            /\ outputStream'[Len(outputStream')].size = Len(component.contigs)]_vars

\* the two equal contigs AAT of the second component of a run were merged
\* into the one vertex AAT and written as one supercontig
C24_Witness ==
    /\ pc = "constructed"
    /\ compGraph = NewComponentGraph(<<"A", "A", "T">>)
    /\ Cardinality(RecordsAt(1)) = 1
    /\ \E k \in RecordsAt(1) :
          /\ outputStream[k].seq = <<"A", "A", "T">>
          /\ outputStream[k].size = 2 /\ outputStream[k].tag = <<"a">>

(***************************************************************************)
(* bestDiagonal                                                            *)
(***************************************************************************)
\* C25: bestDiagonal returns the sentinel as soon as the reduced q-gram
\* length is below 3, and the recursion ends for all sequences and every
\* qgramLength, also when it reaches 0.  The code does not keep this: it
\* counts hits of 2-grams and 1-grams like any others and returns their
\* diagonal, and with qgramLength 0 and no hit it calls itself with 0 again.
C25_SentinelBelow3AndEnds ==
    /\ pc # "exhausted"
    /\ (pc = "return" /\ call.depth > 0 /\ call.qgramLength < 3) => ret = Sentinel

(***************************************************************************)
(* readAlignedPairs on a pair file of any text                             *)
(***************************************************************************)
\* the text left starts with something that is not two numbers
Malformed(s) == ~ReadPair(s).ok /\ SkipSpace(s, 1) <= Len(s)

\* the text left starts with two numbers, one of them no id of [0, 2N)
OutsideIds(s) == ReadPair(s).ok /\ ~InIds(ReadPair(s), contigsInTotal)

\* C26: readAlignedPairs ends the read of a file with an error when a line is
\* not two non-negative integers or holds an id >= 2N, and never looks up or
\* joins an id outside [0, 2N).  The code does not keep this: words that are
\* no numbers end the loop like the end of the file and 0 is returned, and
\* an id behind the end goes to findSet and joinSets unchecked.
C26_MalformedPairFile ==
    [][(pc = "lines" /\ (Malformed(stream) \/ OutsideIds(stream)))
          => (pc' = "error" /\ mUf' = mUf /\ mPairs' = mPairs)]_vars

(***************************************************************************)
(* filterByEntropy                                                         *)
(***************************************************************************)
\* the records of the skipped stream about the contig of key k
LoggedAbout(k) ==
    {j \in 1 .. Len(ret.skippedStream) :
        ret.skippedStream[j].id = call.contigs[k].id}

\* C27: filterByEntropy removes exactly the contigs whose entropy is strictly
\* below minEntropy, logs each of them once to the skipped stream with its id
\* and entropy, leaves every other contig in the map unchanged, and returns
\* failure if and only if no contig remains.
C27_FilterByEntropy ==
    pc = "return" =>
        LET low == {k \in DOMAIN call.contigs :
                       averageEntropy(call.contigs[k].seq) < call.minEntropy}
        IN  /\ DOMAIN ret.contigs = DOMAIN call.contigs \ low
            /\ \A k \in DOMAIN ret.contigs : ret.contigs[k] = call.contigs[k]
            /\ \A k \in low :
                  /\ Cardinality(LoggedAbout(k)) = 1
                  /\ \A j \in LoggedAbout(k) :
                        ret.skippedStream[j].entropy = averageEntropy(call.contigs[k].seq)
            /\ \A k \in DOMAIN ret.contigs : LoggedAbout(k) = {}
            /\ (ret.value = 1) <=> (DOMAIN ret.contigs = {})

\* a contig of entropy below minEntropy is removed, one of entropy equal to
\* minEntropy stays, and the call succeeds
C27_Witness ==
    /\ pc = "return"
    /\ ret.value = 0
    /\ \E k \in DOMAIN call.contigs : averageEntropy(call.contigs[k].seq) < call.minEntropy
    /\ \E k \in DOMAIN ret.contigs :
          /\ averageEntropy(call.contigs[k].seq) = call.minEntropy
          /\ call.minEntropy > 0

(***************************************************************************)
(* The size cap of constructSupercontigs                                   *)
(***************************************************************************)
\* C28: a component whose ordered contig list has more than 10 * (number of
\* contig files) contigs is skipped: nothing is written for it, it is counted
\* as too large, and the loop goes on with the next component; a component of
\* exactly 10 * files contigs is still merged.
C28_SizeCap ==
    /\ [][(pc = "ordered" /\ Len(component.contigs) > SizeFactor * numContigFiles)
             => /\ outputStream' = outputStream
                /\ numTooLarge' = numTooLarge + 1
                /\ compIt' = compIt + 1
                /\ pc' = "construct"
                /\ components' = components]_vars
    /\ [][(pc = "ordered" /\ Len(component.contigs) = SizeFactor * numContigFiles)
             => /\ numTooLarge' = numTooLarge
                /\ pc' = "graft"
                /\ seqIndex' = 1]_vars

\* a component of 11 contigs of one file was skipped and the component after
\* it is merged and written
C28_Witness ==
    /\ pc = "constructed"
    /\ numContigFiles = 1
    /\ numTooLarge = 1
    /\ outputStream # <<>>
    /\ Cardinality(DOMAIN components) = 2

(***************************************************************************)
(* The twins during partitioning                                           *)
(***************************************************************************)
\* an edge, or the twin of an edge, has been inserted for id i
EdgeInserted(i) ==
    \E p \in alignedPairs : i \in {p[1], p[2], rc(p[1]), rc(p[2])}

\* C29 as stated: during partitioning, for every id i, find(rc(i)) and find(i)
\* are different roots if and only if no twin-closed edge has yet been
\* inserted for i.
C29_TwinApartIffNoEdge ==
    \A i \in DOMAIN uf :
        (findSet(uf, rc(i)) # findSet(uf, i)) <=> ~EdgeInserted(i)

\* C29, amended: during partitioning, an id i for which no twin-closed edge
\* has yet been inserted and its twin rc(i) are sets of one id each, so
\* find(rc(i)) and find(i) are different roots.  The roots stay different
\* after an edge (i, b) as well, as long as no edge joins the set of i with the
\* set of rc(i).
C29_NoEdgeTwinApart ==
    \A i \in DOMAIN uf :
        ~EdgeInserted(i) =>
            /\ SizeAt(uf, i) = 1
            /\ SizeAt(uf, rc(i)) = 1
            /\ findSet(uf, rc(i)) # findSet(uf, i)

\* partitioning has inserted an edge for some id and none for another
C29_Witness ==
    /\ pc = "partition"
    /\ \E i \in DOMAIN uf : EdgeInserted(i) /\ findSet(uf, rc(i)) # findSet(uf, i)
    /\ \E i \in DOMAIN uf : ~EdgeInserted(i)

(***************************************************************************)
(* hasLowMappingQuality                                                    *)
(***************************************************************************)
\* the other read end is mapped within 1000 bp on the same reference in
\* opposite orientation
MateProper ==
    /\ call.record.rID = call.record.rNextId
    /\ call.record.pNext - call.record.beginPos \in (1 - MateDistance) .. (MateDistance - 1)
    /\ call.record.flagRC = ~call.record.flagNextRC

\* fewer than 50 matched bases, soft-clipped by 25 or more bases at both
\* ends, or an AS tag lower than 0.5 * read length
LowQuality ==
    LET cigar == call.record.cigar IN
    \/ Matches(cigar) < MinMatches
    \/ /\ cigar # <<>>
       /\ cigar[1].operation = "S" /\ cigar[1].count >= 25
       /\ cigar[Len(cigar)].operation = "S" /\ cigar[Len(cigar)].count >= 25
    \/ /\ call.record.tags # <<>>
       /\ 2 * call.record.tags["AS"] < call.record.seqLength

StartOf(s, t) == Len(s) <= Len(t) /\ s = SubSeq(t, 1, Len(s))

\* C31: when a graft makes a left branch and the alignment begins strictly
\* inside the label of vertex u of the chosen path, u is split at the offset
\* of its label that alignBeginPath falls on (u keeps the bases before it) and
\* the branch is attached to the part after it, also when the right end of
\* the same graft has split or extended u.  The code does not keep this: the
\* left end takes uPos from the path enumerated before the graft and the
\* label length from the graph the right end has already changed (lines
\* 318-320), so it splits at another offset or not at all.
C31_LeftSplitAtAlignBegin ==
    GraftAhead =>
        \A al \in Alignments(NextSeq, BestPath.seq) :
           (/\ al.alignBeginSeq > 0
            /\ al.alignBeginPath > 0
            /\ minTipScore >= 0 /\ al.alignBeginSeq > minTipScore) =>
              LET uPos == UpperBound(BestPath.positionMap, al.alignBeginPath)
                  u == BestPath.positionMap[uPos]
                  label == compGraph.sequenceMap[u]
                  offset_ == al.alignBeginPath - (uPos - Len(label))
                  g2 == LeftEnd(RightEnd(compGraph, BestPath, NextSeq, al, minTipScore),
                                BestPath, NextSeq, al, minTipScore)
                  uBranch == numVertices(g2) - 1
              IN  (0 < offset_ /\ offset_ < Len(label)) =>
                     /\ g2.sequenceMap[u] = SubSeq(label, 1, offset_)
                     /\ Len(g2.graph[uBranch]) = 1
                     /\ LET uSplit == g2.graph[uBranch][1]
                            rest == SubSeq(label, offset_ + 1, Len(label))
                        IN  /\ uSplit # u
                            /\ g2.sequenceMap[uSplit] # <<>>
                            /\ \/ StartOf(g2.sequenceMap[uSplit], rest)
                               \/ StartOf(rest, g2.sequenceMap[uSplit])

(***************************************************************************)
(* The cut-off of the finder loop                                          *)
(***************************************************************************)
\* the finder has a hit of query a to hand to the loop's body
HitAhead ==
    /\ pc = "partition"
    /\ a < QueryLimit(offset, width)
    /\ a \in contigs
    /\ h <= Len(hits[a])

Endpoints(P) == {p[1] : p \in P} \cup {p[2] : p \in P}
ForwardOf(i) == IF i < N THEN i ELSE i - N
ForwardTouched(P) == {ForwardOf(i) : i \in Endpoints(P)}

\* the ids connected with the ids S over pairs of P
RECURSIVE ConnectedOver(_, _)
ConnectedOver(P, S) ==
    LET T == S \cup {p[2] : p \in {q \in P : q[1] \in S}}
                 \cup {p[1] : p \in {q \in P : q[2] \in S}}
    IN  IF T = S THEN S ELSE ConnectedOver(P, T)

\* the trees of the pairs of P
Trees(P) == {ConnectedOver(P, {i}) : i \in Endpoints(P)}

\* the pairs of P have no cycle: one pair less than ids in every tree
Forest(P) == Cardinality(P) = Cardinality(Endpoints(P)) - Cardinality(Trees(P))

\* the number of pairs is the number of forward ids touched minus the number
\* of sets of u they are in
CountedByForwardIds(P, u) ==
    P # {} =>
        Cardinality(P) = Cardinality(ForwardTouched(P))
                         - Cardinality({findSet(u, i) : i \in ForwardTouched(P)})

\* C33 as stated: the pairs recorded by partitionContigs and by
\* readAlignedPairs form a forest, and their number is the number of forward
\* ids touched minus the number of forward components they form.
C33_PairsCountedByForwardIds ==
    /\ Forest(alignedPairs) /\ Forest(mPairs)
    /\ CountedByForwardIds(alignedPairs, uf)
    /\ CountedByForwardIds(mPairs, mUf)

\* C33, amended: each pair recorded by partitionContigs and by
\* readAlignedPairs joined two sets that were distinct when it was recorded
\* and no pair is recorded between two ids of one set, so the recorded pairs
\* form a forest on the ids: their number is the number of ids they touch
\* minus the number of trees.  For the pairs of partitionContigs the number
\* is also the number of forward ids touched minus the number of sets they
\* are in; for a pair file that mixes forward and reverse-complement ids it
\* is not.
C33_PairsFormForest ==
    /\ [](Forest(alignedPairs) /\ Forest(mPairs))
    /\ [](CountedByForwardIds(alignedPairs, uf))
    /\ [][\A p \in alignedPairs' \ alignedPairs :
             /\ findSet(uf, p[1]) # findSet(uf, p[2])
             /\ findSet(uf', p[1]) = findSet(uf', p[2])]_vars
    /\ [][(pc = "lines" /\ pc' = "lines") =>
             /\ \A p \in mPairs' \ mPairs :
                   /\ findSet(mUf, p[1]) # findSet(mUf, p[2])
                   /\ findSet(mUf', p[1]) = findSet(mUf', p[2])
             /\ (ReadPair(stream).ok
                   /\ findSet(mUf, ReadPair(stream).key) = findSet(mUf, ReadPair(stream).val))
                => mPairs' = mPairs]_vars

\* two pairs were read from files that mix forward and reverse-complement
\* ids, and one line between ids of one set was passed over
C33_Witness ==
    /\ pc = "done"
    /\ Cardinality(mPairs) = 2
    /\ \E p \in mPairs : p[1] < N /\ p[2] >= N
    /\ ~CountedByForwardIds(mPairs, mUf)
    /\ Len(files[1]) + Len(files[2]) = 12

(***************************************************************************)
(* One key for every set and its twin                                      *)
(***************************************************************************)
\* the keys whose set is the set of id i or its twin set
KeysOfSet(i) == {k \in DOMAIN components : KeyOfId(k, i)}

\* the ids the pairs stored in the components touch
StoredEndpoints == UNION {Endpoints(components[k]) : k \in DOMAIN components}

\* C34: after readAndMergeComponents, before the batch is cut out, every set
\* of the Union-Find and its twin set are represented by exactly one
\* component key: no endpoint of a stored pair is also a key without pairs,
\* and no two keys belong to one set or to twin sets of each other, for every
\* pair file with ids in [0, 2N), also when lines mix forward and
\* reverse-complement ids.
C34_OneKeyPerTwinSets ==
    pc = "done" =>
        /\ \A i \in Ids(N) : Cardinality(KeysOfSet(i)) = 1
        /\ \A k \in DOMAIN components : components[k] = {} => k \notin StoredEndpoints
        /\ \A k, l \in DOMAIN components :
              k # l => ~KeyOfId(k, l)

\* components were assembled from lines that mix forward and
\* reverse-complement ids, one set is its own twin set, and another contig is
\* a singleton
C34_Witness ==
    /\ pc = "done"
    /\ \E p \in mPairs : p[1] < N /\ p[2] >= N
    /\ \E i \in Ids(N) : findSet(mUf, i) = findSet(mUf, rc(i))
    /\ \E k \in DOMAIN components : components[k] = {}
    /\ \E k \in DOMAIN components : components[k] # {}

(***************************************************************************)
(* writeFastq                                                              *)
(***************************************************************************)
\* the records of the stream about the read of name n
RecordsOf(stream_, n) ==
    {k \in 1 .. Len(stream_) : stream_[k].name = n}

\* the stream holds one record about n, the read `read`
WrittenOnce(stream_, n, read) ==
    /\ Cardinality(RecordsOf(stream_, n)) = 1
    /\ \A k \in RecordsOf(stream_, n) :
          stream_[k].seq = read.i1 /\ stream_[k].qual = read.i2

\* C35: writeFastq, with its three files open, writes every read exactly
\* once: the read of a name present in both firstReads and secondReads goes to
\* the first-pair file and to the second-pair file (one record each) and not
\* to the single file; the read of a name present in only one of the maps goes
\* once to the single file and to neither pair file.  When a file cannot be
\* opened, 1 is returned and nothing is written.
C35_EveryReadOnce ==
    pc = "return" =>
        /\ (ret.value = 0) <=> (\A i \in 1 .. 3 : call.isGood[i])
        /\ ret.value # 0 => ret.files = NoRecords
        /\ ret.value = 0 =>
              \A n \in 1 .. ReadNames :
                 LET inFirst == n \in DOMAIN call.firstReads
                     inSecond == n \in DOMAIN call.secondReads
                 IN  /\ (inFirst /\ inSecond) =>
                           /\ WrittenOnce(ret.files.first, n, call.firstReads[n])
                           /\ WrittenOnce(ret.files.second, n, call.secondReads[n])
                           /\ RecordsOf(ret.files.single, n) = {}
                     /\ (inFirst /\ ~inSecond) =>
                           /\ WrittenOnce(ret.files.single, n, call.firstReads[n])
                           /\ RecordsOf(ret.files.first, n) = {}
                           /\ RecordsOf(ret.files.second, n) = {}
                     /\ (~inFirst /\ inSecond) =>
                           /\ WrittenOnce(ret.files.single, n, call.secondReads[n])
                           /\ RecordsOf(ret.files.first, n) = {}
                           /\ RecordsOf(ret.files.second, n) = {}
                     /\ (~inFirst /\ ~inSecond) =>
                           /\ RecordsOf(ret.files.single, n) = {}
                           /\ RecordsOf(ret.files.first, n) = {}
                           /\ RecordsOf(ret.files.second, n) = {}

\* a pair was written between a read of the first map alone and a read of the
\* second map alone
C35_Witness ==
    /\ pc = "return"
    /\ ret.value = 0
    /\ DOMAIN call.firstReads = {1, 2}
    /\ DOMAIN call.secondReads = {2, 3}
    /\ call.firstReads[2].i1 # call.secondReads[2].i1
    /\ Len(ret.files.first) = 1 /\ Len(ret.files.second) = 1
    /\ Len(ret.files.single) = 2

====
